---- MODULE Spec2Model ----
(***************************************************************************)
(* Satellite-task record backend: the data-access layer (lib/db.js), the   *)
(* import, clear and record handlers and the satellite_records table.      *)
(*                                                                         *)
(* Conventions.  A JavaScript value is a record [t, s, n]: its type tag,   *)
(* its text (a sequence of tokens; " " is the whitespace token) and its    *)
(* number.  The keys and sentinel texts the source writes in Chinese are   *)
(* written in pinyin: jihuaID (plan id), kaishishijian (start time),       *)
(* renwujieguozhuangtai (task result), suoshukehu (customer),              *)
(* weixingmingcheng (satellite), cezhanmingcheng (station),                *)
(* cezhanID (station id), renwuleixing (task type).                        *)
(* Instants are counted in hours (86400000 ms = 24 h).                     *)
(***************************************************************************)
EXTENDS Integers, Sequences, FiniteSets, TLC

VARIABLES
    table,      \* satellite_records: the set of committed rows
    seq,        \* last value of the id sequence (SERIAL), 0 after RESTART IDENTITY
    now,        \* CURRENT_TIMESTAMP of the database
    dbCall,     \* a direct caller of batchInsertRecords: its position and arguments
    reqs,       \* the requests in flight: handler, position and locals of each
    resp,       \* the answer most recently sent, with what the request did
    users,      \* the users table: the rows, each with the code that inserted it
    boot,       \* whether the tables exist, and the process's isInitialized flag
    queryCache, \* the process's queryCache: entries [key, data, timestamp]
    dateNow,    \* Date.now() of the process, in minutes
    qCalls,     \* the callers of getRecords: position, options and result of each
    tz,         \* the time zone of the process: hours ahead of UTC
    conv,       \* a time value handed to the conversions, and what they gave
    upload      \* an import sent as several requests: its batches and progress

userVars == <<users, boot>>
cacheVars == <<queryCache, dateNow, qCalls>>
timeVars == <<tz, conv>>
sendVars == <<upload>>

vars ==
    <<table, seq, now, dbCall, reqs, resp, users, boot, queryCache, dateNow, qCalls,
      tz, conv, upload>>

----------------------------------------------------------------------------
(* Bounds *)

MaxBatch == 2       \* rows in one batch
MaxSeq == 4         \* values drawn from the id sequence between two truncations
MaxClock == 1       \* ticks of the database clock

----------------------------------------------------------------------------
(* JavaScript values *)

Undefined == [t |-> "undefined", s |-> <<>>, n |-> 0]
Null == [t |-> "null", s |-> <<>>, n |-> 0]
Str(s) == [t |-> "string", s |-> s, n |-> 0]
Num(n) == [t |-> "number", s |-> <<>>, n |-> n]
DateV(h) == [t |-> "date", s |-> <<>>, n |-> h]
InvalidDate == [t |-> "date", s |-> <<"Invalid Date">>, n |-> 0]

IsValidDate(v) == v.t = "date" /\ v.s = <<>>

\* ToBoolean: undefined, null, "" and 0 are falsy
Truthy(v) ==
    CASE v.t = "undefined" -> FALSE
      [] v.t = "null" -> FALSE
      [] v.t = "string" -> v.s # <<>>
      [] v.t = "number" -> v.n # 0
      [] OTHER -> TRUE

\* a || b
Or(a, b) == IF Truthy(a) THEN a ELSE b

\* row[k]
Get(row, k) == IF k \in DOMAIN row THEN row[k] ELSE Undefined

\* { ...base, ...over }: a later key overrides an earlier one
Spread(base, over) ==
    [k \in DOMAIN base \cup DOMAIN over |->
        IF k \in DOMAIN over THEN over[k] ELSE base[k]]

\* String.prototype.trim
RECURSIVE TrimStart(_)
TrimStart(s) ==
    IF s # <<>> /\ Head(s) = " " THEN TrimStart(Tail(s)) ELSE s

RECURSIVE TrimEnd(_)
TrimEnd(s) ==
    IF s # <<>> /\ s[Len(s)] = " " THEN TrimEnd(SubSeq(s, 1, Len(s) - 1)) ELSE s

Trim(s) == TrimEnd(TrimStart(s))

----------------------------------------------------------------------------
(* Dates *)

\* Days since 1970-01-01 of the calendar dates the inputs use
DayNumber(d) ==
    CASE d = "2024-01-01" -> 19723
      [] d = "2024-01-02" -> 19724
      [] OTHER -> -1

\* Hour of the clock times the inputs use
HourOf(c) ==
    CASE c = "08:00:00" -> 8
      [] c = "09:00:00" -> 9
      [] OTHER -> -1

HoursPerDay == 24
ExcelEpochDays == 25569

\* A Date is kept as the wall-clock time its local getters show in the time
\* zone of the process, in hours; getTime() is that minus the zone
GetTime(d) == d.n - tz

\* The time zone a string names after its time
ZoneOffset(z) ==
    CASE z = "Z" -> 0
      [] z = "+08:00" -> 8
      [] OTHER -> -1

\* The wall-clock time a string names, whatever follows it
WallClock(s) == DayNumber(s[1]) * HoursPerDay + HourOf(s[3])

\* new Date(string): "<date> <time>" and "<date>T<time>" give that wall-clock
\* time in the zone of the process, with "Z" or "+08:00" after the time in
\* the zone named; anything else is an invalid date
NewDateFromString(s) ==
    IF /\ Len(s) \in {3, 4} /\ s[2] \in {" ", "T"}
       /\ DayNumber(s[1]) >= 0 /\ HourOf(s[3]) >= 0
       /\ Len(s) = 4 => ZoneOffset(s[4]) >= 0
    THEN IF Len(s) = 4
         THEN DateV(WallClock(s) - ZoneOffset(s[4]) + tz)
         ELSE DateV(WallClock(s))
    ELSE InvalidDate

\* The serial read as days of local time
NewDateFromLocalSerial(n) == DateV((n - ExcelEpochDays) * HoursPerDay)

\* new Date((serial - 25569) * 86400000): the instant that many days after
\* 1970-01-01T00:00Z
NewDateFromSerial(n) == DateV((n - ExcelEpochDays) * HoursPerDay + tz)

\* parseFileTime
parseFileTime(timeValue) ==
    IF ~Truthy(timeValue) THEN Null
    ELSE IF timeValue.t = "date" THEN timeValue
    ELSE IF timeValue.t = "string" /\ IsValidDate(NewDateFromString(timeValue.s))
         THEN NewDateFromString(timeValue.s)
    ELSE IF timeValue.t = "number" /\ IsValidDate(NewDateFromSerial(timeValue.n))
         THEN NewDateFromSerial(timeValue.n)
    ELSE Null

----------------------------------------------------------------------------
(* The rows handed to batchInsertRecords *)

T1 == <<"2024-01-01", " ", "08:00:00">>
T2 == <<"2024-01-02", " ", "09:00:00">>

CnExtras ==
    ("suoshukehu" :> Str(<<"KH1">>)) @@ ("weixingmingcheng" :> Str(<<"WX1">>)) @@
    ("cezhanmingcheng" :> Str(<<"CZ1">>)) @@ ("cezhanID" :> Str(<<"ID1">>)) @@
    ("renwuleixing" :> Str(<<"LX1">>))

EnExtras ==
    ("customer" :> Str(<<"C2">>)) @@ ("satellite_name" :> Str(<<"S2">>)) @@
    ("station_name" :> Str(<<"N2">>)) @@ ("station_id" :> Str(<<"I2">>)) @@
    ("task_type" :> Str(<<"Y2">>))

CnRow(pid, st, res) ==
    ("jihuaID" :> pid) @@ ("kaishishijian" :> st) @@ ("renwujieguozhuangtai" :> res)

EnRow(pid, st, res) ==
    ("plan_id" :> pid) @@ ("start_time" :> st) @@ ("task_result" :> res)

RowA1 == CnRow(Str(<<"A">>), Str(T1), Str(<<"zhengchang">>)) @@ CnExtras
RowA2 == EnRow(Str(<<"A">>), Str(T2), Str(<<"shibai">>)) @@ EnExtras
RowB1 == CnRow(Str(<<"B">>), Str(T1), Str(<<"zhengchang">>))
RowBNoTime == EnRow(Str(<<"B">>), Str(<<>>), Str(<<"shibai">>))
RowABadTime == CnRow(Str(<<"A">>), Str(<<"bad">>), Str(<<>>))
RowNoPlan == "start_time" :> Str(T1)

DbRows == {RowA1, RowA2, RowB1, RowBNoTime, RowABadTime, RowNoPlan}

RECURSIVE SeqsUpTo(_, _)
SeqsUpTo(S, n) ==
    IF n = 0 THEN {<<>>}
    ELSE SeqsUpTo(S, n - 1) \cup
         {Append(q, x) : q \in {q \in SeqsUpTo(S, n - 1) : Len(q) = n - 1}, x \in S}

----------------------------------------------------------------------------
(* PostgreSQL: the satellite_records table *)

IsSqlNull(v) == v.t \in {"undefined", "null"}

\* JSON.stringify(record) stored as JSONB: undefined members are dropped, a
\* date becomes its ISO text (the text of instant n), an invalid date null
JsonStringify(record) ==
    [k \in {k \in DOMAIN record : record[k].t # "undefined"} |->
        IF record[k].t = "date"
        THEN IF IsValidDate(record[k])
             THEN [t |-> "string", s |-> <<"ISO">>, n |-> record[k].n]
             ELSE Null
        ELSE record[k]]

\* The NOT NULL columns of satellite_records (plan_id is the primary key)
ViolatesNotNull(p) ==
    \/ IsSqlNull(p.plan_id)
    \/ IsSqlNull(p.customer)
    \/ IsSqlNull(p.satellite_name)
    \/ IsSqlNull(p.station_name)
    \/ IsSqlNull(p.station_id)
    \/ ~IsValidDate(p.start_time)
    \/ IsSqlNull(p.task_type)

\* The same statement on a table without the primary key on plan_id: every
\* accepted row is added
InsertWithoutKey(tbl, sq, clock, p) ==
    IF ViolatesNotNull(p)
    THEN [ok |-> FALSE, table |-> tbl, seq |-> sq + 1]
    ELSE [ok |-> TRUE,
          table |-> tbl \cup {[id |-> sq + 1,
                               plan_id |-> p.plan_id.s,
                               customer |-> p.customer.s,
                               satellite_name |-> p.satellite_name.s,
                               station_name |-> p.station_name.s,
                               station_id |-> p.station_id.s,
                               start_time |-> p.start_time.n,
                               task_type |-> p.task_type.s,
                               task_result |-> p.task_result.s,
                               raw_data |-> p.raw_data,
                               created_at |-> clock,
                               updated_at |-> clock]},
          seq |-> sq + 1]

\* A sequence that hands out its first value again and again
NextvalRestarting(sq) == 1

\* id SERIAL: nextval of the sequence behind the column
Nextval(sq) == sq + 1

\* INSERT ... ON CONFLICT (plan_id) DO UPDATE, one statement.  The id default
\* nextval() is drawn before the constraints are checked and is not given back.
InsertOnConflict(tbl, sq, clock, p) ==
    LET id == Nextval(sq)
        hit == {r \in tbl : r.plan_id = p.plan_id.s}
        fresh == [id |-> id,
                  plan_id |-> p.plan_id.s,
                  customer |-> p.customer.s,
                  satellite_name |-> p.satellite_name.s,
                  station_name |-> p.station_name.s,
                  station_id |-> p.station_id.s,
                  start_time |-> p.start_time.n,
                  task_type |-> p.task_type.s,
                  task_result |-> p.task_result.s,
                  raw_data |-> p.raw_data,
                  created_at |-> clock,
                  updated_at |-> clock]
        upd(r) == [r EXCEPT !.customer = p.customer.s,
                            !.satellite_name = p.satellite_name.s,
                            !.station_name = p.station_name.s,
                            !.station_id = p.station_id.s,
                            !.start_time = p.start_time.n,
                            !.task_type = p.task_type.s,
                            !.task_result = p.task_result.s,
                            !.raw_data = p.raw_data,
                            !.updated_at = clock]
    IN  IF ViolatesNotNull(p)
        THEN [ok |-> FALSE, table |-> tbl, seq |-> id]
        ELSE IF hit # {}
        THEN [ok |-> TRUE, table |-> (tbl \ hit) \cup {upd(r) : r \in hit}, seq |-> id]
        ELSE [ok |-> TRUE, table |-> tbl \cup {fresh}, seq |-> id]

\* TRUNCATE TABLE satellite_records RESTART IDENTITY
TruncateTable == [table |-> {}, seq |-> 0]

----------------------------------------------------------------------------
(* batchInsertRecords *)

\* The parameters of one row's INSERT
InsertParams(record) ==
    [plan_id |-> Or(Get(record, "jihuaID"), Get(record, "plan_id")),
     customer |-> Or(Or(Get(record, "suoshukehu"), Get(record, "customer")),
                     Str(<<"weizhikehu">>)),
     satellite_name |-> Or(Or(Get(record, "weixingmingcheng"), Get(record, "satellite_name")),
                           Str(<<"weizhiweixing">>)),
     station_name |-> Or(Or(Get(record, "cezhanmingcheng"), Get(record, "station_name")),
                         Str(<<"weizhicezhan">>)),
     station_id |-> Or(Or(Get(record, "cezhanID"), Get(record, "station_id")),
                       Str(<<"weizhiID">>)),
     start_time |-> parseFileTime(Or(Get(record, "kaishishijian"), Get(record, "start_time"))),
     task_type |-> Or(Or(Get(record, "renwuleixing"), Get(record, "task_type")),
                      Str(<<"weizhileixing">>)),
     task_result |-> Or(Or(Get(record, "renwujieguozhuangtai"), Get(record, "task_result")),
                        Str(<<"weizhizhuangtai">>)),
     raw_data |-> JsonStringify(record)]

\* What can go wrong below the statements: pool.connect() fails, BEGIN fails,
\* the connection is lost before the at-th INSERT, COMMIT fails
NoFault == [kind |-> "none", at |-> 0]
Faults(n) ==
    {NoFault, [kind |-> "connect", at |-> 0], [kind |-> "begin", at |-> 0],
     [kind |-> "commit", at |-> 0]}
    \cup {[kind |-> "lost", at |-> i] : i \in 1..n}

FaultKinds == {"none", "connect", "begin", "commit", "lost"}
FaultsOf(kinds, n) == {f \in Faults(n) : f.kind \in kinds}

ConnectionLost(fault, i) == fault.kind = "lost" /\ i >= fault.at

\* The loop's state after the statement of one row gave r: inserted++ when it
\* succeeded, the catch (and an aborted transaction) when it failed
RowDone(st, r) ==
    IF r.ok
    THEN [st EXCEPT !.table = r.table, !.seq = r.seq, !.inserted = @ + 1]
    ELSE [st EXCEPT !.seq = r.seq, !.aborted = TRUE]

\* One pass of the for loop's body: the statement throws when the connection
\* is gone or when the transaction is already aborted (every statement after
\* a failed one is refused until the transaction ends); the catch skips the row
InsertOne(st, record, i, fault, clock) ==
    IF ConnectionLost(fault, i) \/ st.aborted THEN st
    ELSE RowDone(st, InsertOnConflict(st.table, st.seq, clock, InsertParams(record)))

\* st is a state of the loop
IsLoopState(st) == st.inserted >= 0

\* The passes of the for loop for records[lo..hi], in order: those of the
\* first half, whose state is computed before going on, then those of the
\* second half
RECURSIVE InsertRange(_, _, _, _, _, _)
InsertRange(st, records, lo, hi, fault, clock) ==
    IF lo > hi THEN st
    ELSE IF lo = hi THEN InsertOne(st, records[lo], lo, fault, clock)
    ELSE LET half == InsertRange(st, records, lo, (lo + hi) \div 2, fault, clock)
         IN  IF IsLoopState(half)
             THEN InsertRange(half, records, (lo + hi) \div 2 + 1, hi, fault, clock)
             ELSE half

\* for (const record of records), from the i-th record on
InsertLoop(st, records, i, fault, clock) ==
    InsertRange(st, records, i, Len(records), fault, clock)

\* An end of the call that keeps what the loop wrote whatever happened
EndWithoutRollback(tbl, sq, st, n, fault) ==
    [table |-> st.table, seq |-> st.seq,
     ret |-> IF fault.kind = "none" THEN st.inserted ELSE 0,
     threw |-> fault.kind # "none", rollback |-> fault.kind \notin {"none", "connect"}]

\* The end of the call once the loop left st: COMMIT and the count, or the
\* outer catch with ROLLBACK and the error.  COMMIT of an aborted transaction
\* rolls it back and reports no error.
EndOfBatch(tbl, sq, st, n, fault) ==
    IF fault.kind = "connect"
    THEN [table |-> tbl, seq |-> sq, ret |-> 0, threw |-> TRUE, rollback |-> FALSE]
    ELSE IF fault.kind = "begin"
    THEN [table |-> tbl, seq |-> sq, ret |-> 0, threw |-> TRUE, rollback |-> TRUE]
    ELSE IF fault.kind = "commit" \/ ConnectionLost(fault, n)
    THEN [table |-> tbl, seq |-> st.seq, ret |-> 0, threw |-> TRUE, rollback |-> TRUE]
    ELSE IF st.aborted
    THEN [table |-> tbl, seq |-> st.seq, ret |-> st.inserted, threw |-> FALSE,
          rollback |-> FALSE]
    ELSE [table |-> st.table, seq |-> st.seq, ret |-> st.inserted, threw |-> FALSE,
          rollback |-> FALSE]

\* The whole call: [table, seq] after it, ret the count returned, threw whether
\* it rejected instead, rollback whether ROLLBACK was issued
batchInsertRecords(tbl, sq, clock, records, fault) ==
    EndOfBatch(tbl, sq,
               InsertLoop([table |-> tbl, seq |-> sq, aborted |-> FALSE, inserted |-> 0],
                          records, 1, fault, clock),
               Len(records), fault)

----------------------------------------------------------------------------
(* State *)

\* The answers of lib/auth.js: verifyAuth refusing the request, sendSuccess,
\* handleError
Unauthorized == 401
Success == 200
ServerError == 500

DbIdle ==
    [pc |-> "idle", records |-> <<>>, fault |-> NoFault, before |-> {},
     ret |-> 0, threw |-> FALSE, rollback |-> FALSE, at |-> 0]

\* An answer: the status and body members the claims read, with a record of
\* what the request was given and did (auth: verifyAuth let it pass; before:
\* the table when it arrived; wrote: it issued a statement that changes
\* satellite_records; queried: it ran the export query; removed: the rows its
\* TRUNCATE removed)
NoResp ==
    [handler |-> "none", status |-> 0, auth |-> TRUE, validate |-> FALSE, mode |-> "",
     rows |-> <<>>, imported |-> 0, deletedCount |-> 0, remainingCount |-> 0,
     id |-> Undefined, data |-> {}, before |-> {}, wrote |-> FALSE, queried |-> FALSE,
     removed |-> 0, query |-> <<>>]

\* A request in flight between two of its statements
NoReq ==
    [handler |-> "none", pc |-> "", auth |-> TRUE, mode |-> "", validate |-> FALSE,
     rows |-> <<>>, chunks |-> <<>>, username |-> "",
     imported |-> 0, id |-> 0, body |-> <<>>, n |-> 0, plan_id |-> <<>>,
     wrote |-> FALSE, removed |-> 0]

Clients == {1, 2}

\* No time value is being converted
NoConv ==
    [pc |-> "idle", value |-> Undefined, server |-> Null, handler |-> Null,
     client |-> Null]

\* A caller of getRecords: hit tells whether the result came from the cache,
\* queries how many statements the call sent, seen the table they were run on,
\* at and took the minutes at which the call was made and answered
QIdle ==
    [pc |-> "idle", options |-> <<>>, result |-> <<>>, hit |-> FALSE, queries |-> 0,
     seen |-> {}, at |-> 0, took |-> 0]

\* No import is being sent in several requests
NoUpload == [pc |-> "idle", mode |-> "", batches |-> <<>>, sent |-> 0, before |-> {}]

Init ==
    /\ table = {}
    /\ seq = 0
    /\ now = 0
    /\ dbCall = DbIdle
    /\ reqs = [c \in Clients |-> NoReq]
    /\ resp = NoResp
    /\ users = {}
    /\ boot = [tables |-> FALSE, isInitialized |-> FALSE]
    /\ queryCache = {}
    /\ dateNow = 0
    /\ qCalls = [c \in Clients |-> QIdle]
    /\ tz = 0
    /\ conv = NoConv
    /\ upload = NoUpload

\* Time passes
Tick ==
    /\ now < MaxClock
    /\ now' = now + 1
    /\ UNCHANGED <<table, seq, dbCall, reqs, resp>>
    /\ UNCHANGED userVars
    /\ UNCHANGED timeVars
    /\ UNCHANGED cacheVars
    /\ UNCHANGED sendVars

----------------------------------------------------------------------------
(* The data-access layer called directly *)

DbBatches == SeqsUpTo(DbRows, MaxBatch)

\* A caller invokes batchInsertRecords(records)
DbCallStart ==
    /\ dbCall.pc = "idle"
    /\ \E records \in DbBatches :
       \E fault \in Faults(Len(records)) :
          /\ seq + Len(records) <= MaxSeq
          /\ dbCall' = [DbIdle EXCEPT !.pc = "called", !.records = records,
                                      !.fault = fault, !.before = table]
    /\ UNCHANGED <<table, seq, now, reqs, resp>>
    /\ UNCHANGED userVars
    /\ UNCHANGED timeVars
    /\ UNCHANGED cacheVars
    /\ UNCHANGED sendVars

\* The call runs: one transaction on its own connection
DbExecute ==
    /\ dbCall.pc = "called"
    /\ LET r == batchInsertRecords(table, seq, now, dbCall.records, dbCall.fault)
       IN  /\ table' = r.table
           /\ seq' = r.seq
           /\ dbCall' = [dbCall EXCEPT !.pc = "done", !.ret = r.ret, !.threw = r.threw,
                                       !.rollback = r.rollback, !.at = now]
    /\ UNCHANGED <<now, reqs, resp>>
    /\ UNCHANGED userVars
    /\ UNCHANGED timeVars
    /\ UNCHANGED cacheVars
    /\ UNCHANGED sendVars

\* The caller takes the result
DbReturn ==
    /\ dbCall.pc = "done"
    /\ dbCall' = DbIdle
    /\ UNCHANGED <<table, seq, now, reqs, resp>>
    /\ UNCHANGED userVars
    /\ UNCHANGED timeVars
    /\ UNCHANGED cacheVars
    /\ UNCHANGED sendVars

\* query('TRUNCATE TABLE satellite_records RESTART IDENTITY')
DbTruncate ==
    /\ dbCall.pc = "idle"
    /\ table # {}
    /\ table' = TruncateTable.table
    /\ seq' = TruncateTable.seq
    /\ UNCHANGED <<now, dbCall, reqs, resp>>
    /\ UNCHANGED userVars
    /\ UNCHANGED timeVars
    /\ UNCHANGED cacheVars
    /\ UNCHANGED sendVars

NextDb == DbCallStart \/ DbExecute \/ DbReturn \/ DbTruncate \/ Tick

SpecDb == Init /\ [][NextDb]_vars

----------------------------------------------------------------------------
(* The import handlers: /api/import (a spreadsheet) and /api/import-batch *)

\* value.toString() of a plan id or a result cell
ToStringText(v) ==
    CASE v.t = "string" -> v.s
      [] v.t = "number" -> <<ToString(v.n)>>
      [] OTHER -> <<"[object]">>

\* row[cn] || row[en] || row[title] || ''
Cell(row, cn, en, title) ==
    Or(Or(Or(Get(row, cn), Get(row, en)), Get(row, title)), Str(<<>>))

\* The time conversion of the validation loop; null when there is no date
ParsedTime(startTime) ==
    CASE startTime.t = "number" -> NewDateFromSerial(startTime.n)
      [] startTime.t = "string" -> NewDateFromString(startTime.s)
      [] startTime.t = "date" -> startTime
      [] OTHER -> Null

\* Which check of the loop body rejects the row under strict validation
RowError(row) ==
    LET planId == Cell(row, "jihuaID", "plan_id", "Plan ID")
        startTime == Cell(row, "kaishishijian", "start_time", "Start Time")
    IN  IF Trim(ToStringText(planId)) = <<>> THEN "plan"
        ELSE IF ~Truthy(startTime) THEN "empty time"
        ELSE IF ~IsValidDate(ParsedTime(startTime)) THEN "bad time"
        ELSE "none"

\* The record the loop body builds from a row; the row's own members come last
\* and override the cleaned ones
StandardRecord(handler, row) ==
    LET planId == Cell(row, "jihuaID", "plan_id", "Plan ID")
        startTime == Cell(row, "kaishishijian", "start_time", "Start Time")
        taskResult == Cell(row, "renwujieguozhuangtai", "task_result", "Task Result")
        parsedTime == IF Truthy(startTime) /\ IsValidDate(ParsedTime(startTime))
                      THEN ParsedTime(startTime) ELSE Null
        cleaned == ("jihuaID" :> Str(Trim(ToStringText(planId)))) @@
                   ("kaishishijian" :> parsedTime) @@
                   ("renwujieguozhuangtai" :> Str(Trim(ToStringText(taskResult))))
        others == ("suoshukehu" :> Or(Or(Get(row, "suoshukehu"), Get(row, "customer")),
                                      Str(<<"weizhikehu">>))) @@
                  ("weixingmingcheng" :> Or(Or(Get(row, "weixingmingcheng"),
                                               Get(row, "satellite_name")),
                                            Str(<<"weizhiweixing">>))) @@
                  ("cezhanmingcheng" :> Or(Or(Get(row, "cezhanmingcheng"),
                                              Get(row, "station_name")),
                                           Str(<<"weizhicezhan">>))) @@
                  ("cezhanID" :> Or(Or(Get(row, "cezhanID"), Get(row, "station_id")),
                                    Str(<<"weizhiID">>))) @@
                  ("renwuleixing" :> Or(Or(Get(row, "renwuleixing"), Get(row, "task_type")),
                                        Str(<<"weizhileixing">>)))
    IN  IF handler = "import-batch"
        THEN Spread(cleaned @@ others, row)
        ELSE Spread(cleaned, row)

\* One pass of the validation loop: the row is counted as an error or its
\* record is pushed
CleanOne(handler, row, validate, acc) ==
    IF validate /\ RowError(row) # "none"
    THEN [acc EXCEPT !.errors = @ + 1]
    ELSE [acc EXCEPT !.validRecords = Append(@, StandardRecord(handler, row))]

\* acc holds the records kept and the number of errors
IsCleaned(acc) == acc.errors >= 0

\* The passes for rows[lo..hi], in order: those of the first half, whose
\* result is computed before going on, then those of the second half
RECURSIVE CleanRange(_, _, _, _, _, _)
CleanRange(handler, rows, lo, hi, validate, acc) ==
    IF lo > hi THEN acc
    ELSE IF lo = hi THEN CleanOne(handler, rows[lo], validate, acc)
    ELSE LET half == CleanRange(handler, rows, lo, (lo + hi) \div 2, validate, acc)
         IN  IF IsCleaned(half)
             THEN CleanRange(handler, rows, (lo + hi) \div 2 + 1, hi, validate, half)
             ELSE half

\* The validation loop: the records kept and the number of errors
CleanRows(handler, rows, i, validate, acc) ==
    CleanRange(handler, rows, i, Len(rows), validate, acc)

BatchSize == 100

\* validRecords.slice(i, i + batchSize) for i = 0, batchSize, ...
RECURSIVE Slices(_, _)
Slices(records, size) ==
    IF Len(records) <= size THEN <<records>>
    ELSE <<SubSeq(records, 1, size)>> \o Slices(SubSeq(records, size + 1, Len(records)), size)

\* The batches batchInsertRecords is called with, one call each
Chunks(handler, validRecords, batch) ==
    IF handler = "import" /\ batch /\ Len(validRecords) > BatchSize
    THEN Slices(validRecords, BatchSize)
    ELSE <<validRecords>>

\* Checks that let a request with rejected rows go on with the rows kept
GateWithoutErrorCheck(handler, auth, n, mode, validate, batch, c) ==
    IF ~auth THEN [status |-> Unauthorized, truncate |-> FALSE, chunks |-> <<>>]
    ELSE IF n = 0 \/ Len(c.validRecords) = 0
    THEN [status |-> 400, truncate |-> FALSE, chunks |-> <<>>]
    ELSE [status |-> 0, truncate |-> mode = "replace",
          chunks |-> Chunks(handler, c.validRecords, batch)]

\* The handler up to its first statement, c being what the validation loop
\* left: the status it answers at once (0 when it goes on), whether it
\* truncates first, and the batches it then inserts
ImportGate(handler, auth, n, mode, validate, batch, c) ==
    LET stop(status) == [status |-> status, truncate |-> FALSE, chunks |-> <<>>]
    IN  IF ~auth THEN stop(Unauthorized)
        ELSE IF n = 0 THEN stop(400)
        ELSE IF validate /\ c.errors > 0 THEN stop(400)
        ELSE IF Len(c.validRecords) = 0 THEN stop(400)
        ELSE [status |-> 0, truncate |-> mode = "replace",
              chunks |-> Chunks(handler, c.validRecords, batch)]

ImportPlan(handler, auth, rows, mode, validate, batch) ==
    ImportGate(handler, auth, Len(rows), mode, validate, batch,
               CleanRows(handler, rows, 1, validate, [validRecords |-> <<>>, errors |-> 0]))

\* The rows a client uploads or posts
CnEmptyPlan == CnRow(Str(<<>>), Str(T1), Str(<<"zhengchang">>))
EnEmptyPlan == EnRow(Str(<<>>), Str(T2), Str(<<"zhengchang">>))

ApiRows == {RowA1, RowB1, RowBNoTime, RowABadTime, CnEmptyPlan, EnEmptyPlan}
ApiBatches == SeqsUpTo(ApiRows, MaxBatch)

Modes == {"append", "replace"}
ImportHandlers == {"import", "import-batch"}

\* The batch flag is read only for more rows than one batch holds
BatchFlags(handler, rows) ==
    IF handler = "import" /\ Len(rows) > BatchSize THEN BOOLEAN ELSE {FALSE}

\* Connection c of the clients is the first one without a request
Free(clients, c) ==
    /\ reqs[c].handler = "none"
    /\ \A d \in clients : reqs[d].handler = "none" => c <= d

\* The requests in flight after client c's request became q
Step(c, q) == [reqs EXCEPT ![c] = q]

\* One call of batchInsertRecords on the next batch of request r, and what the
\* handler does with its result: answer 500 when it threw, go on with the
\* next batch, or answer success after the last one
AfterInsert(r, res) ==
    LET imported == r.imported + res.ret
        answer(status) ==
            [NoResp EXCEPT !.handler = r.handler, !.status = status, !.auth = r.auth,
                           !.mode = r.mode, !.validate = r.validate, !.rows = r.rows,
                           !.imported = imported, !.wrote = TRUE]
    IN  [table |-> res.table, seq |-> res.seq,
         resp |-> IF res.threw THEN [answer(ServerError) EXCEPT !.imported = 0]
                  ELSE IF Len(r.chunks) = 1 THEN answer(Success)
                  ELSE NoResp,
         req |-> IF res.threw \/ Len(r.chunks) = 1 THEN NoReq
                 ELSE [r EXCEPT !.chunks = Tail(@), !.imported = imported,
                                !.wrote = TRUE]]

InsertNext(r, fault) ==
    AfterInsert(r, batchInsertRecords(table, seq, now, Head(r.chunks), fault))

\* The step of client c's import has outcome o
ImportDone(c, o) ==
    /\ table' = o.table
    /\ seq' = o.seq
    /\ reqs' = Step(c, o.req)
    /\ resp' = o.resp

\* The handler of client c from its arrival to its first statement, plan being
\* what the checks decided and maxSeq the ids the sequence may hand out
ImportStartUpTo(c, handler, auth, rows, mode, validate, plan, kinds, maxSeq) ==
    IF plan.status # 0
    THEN /\ resp' = [NoResp EXCEPT !.handler = handler, !.status = plan.status,
                                   !.auth = auth, !.validate = validate,
                                   !.mode = mode, !.rows = rows, !.before = table]
         /\ UNCHANGED <<table, seq, reqs>>
    ELSE IF plan.truncate
    THEN /\ table' = TruncateTable.table
         /\ seq' = TruncateTable.seq
         /\ reqs' = Step(c, [NoReq EXCEPT !.handler = handler, !.pc = "insert",
                                          !.auth = auth,
                                          !.mode = mode, !.validate = validate,
                                          !.rows = rows, !.chunks = plan.chunks,
                                          !.wrote = TRUE])
         /\ resp' = NoResp
    ELSE /\ seq + Len(Head(plan.chunks)) <= maxSeq
         /\ \E fault \in FaultsOf(kinds, Len(Head(plan.chunks))) :
               ImportDone(c, InsertNext([NoReq EXCEPT !.handler = handler,
                                                     !.pc = "insert", !.auth = auth,
                                                     !.mode = mode,
                                                     !.validate = validate,
                                                     !.rows = rows,
                                                     !.chunks = plan.chunks], fault))

ImportStart(c, handler, auth, rows, mode, validate, plan, kinds) ==
    ImportStartUpTo(c, handler, auth, rows, mode, validate, plan, kinds, MaxSeq)

\* POST /api/import or /api/import-batch arrives and runs up to its first
\* statement: it answers at once, truncates (replace mode), or inserts
ImportArrive(clients, batches, validates, kinds) ==
    /\ resp.handler = "none"
    /\ \E c \in clients, handler \in ImportHandlers, auth \in BOOLEAN,
          rows \in batches, mode \in Modes, validate \in validates :
       \E batch \in BatchFlags(handler, rows) :
          /\ Free(clients, c)
          /\ ~auth => rows = <<RowA1>> /\ ~validate
          /\ ImportStart(c, handler, auth, rows, mode, validate,
                         ImportPlan(handler, auth, rows, mode, validate, batch), kinds)
    /\ UNCHANGED <<now, dbCall>>
    /\ UNCHANGED userVars
    /\ UNCHANGED timeVars
    /\ UNCHANGED cacheVars
    /\ UNCHANGED sendVars

\* An import in flight inserts its next batch
ImportInsertUpTo(clients, kinds, maxSeq) ==
    /\ resp.handler = "none"
    /\ \E c \in clients :
       /\ reqs[c].handler \in ImportHandlers /\ reqs[c].pc = "insert"
       /\ seq + Len(Head(reqs[c].chunks)) <= maxSeq
       /\ \E fault \in FaultsOf(kinds, Len(Head(reqs[c].chunks))) :
          ImportDone(c, InsertNext(reqs[c], fault))
    /\ UNCHANGED <<now, dbCall>>
    /\ UNCHANGED userVars
    /\ UNCHANGED timeVars
    /\ UNCHANGED cacheVars
    /\ UNCHANGED sendVars

ImportInsert(clients, kinds) == ImportInsertUpTo(clients, kinds, MaxSeq)

----------------------------------------------------------------------------
(* The clear handler: DELETE /api/clear *)

\* A clear that truncates an empty table too
ClearWithoutEmptyCheck(auth, totalBefore) == IF ~auth THEN Unauthorized ELSE 0

\* The handler after its first COUNT: the status it answers at once, 0 when it
\* goes on to truncate
ClearPlan(auth, totalBefore) ==
    IF ~auth THEN Unauthorized
    ELSE IF totalBefore = 0 THEN 400
    ELSE 0

\* The answer after the second COUNT
ClearAnswer(r, totalAfter) ==
    IF totalAfter # 0
    THEN [NoResp EXCEPT !.handler = "clear", !.status = ServerError, !.auth = r.auth,
                        !.wrote = r.wrote, !.removed = r.removed]
    ELSE [NoResp EXCEPT !.handler = "clear", !.status = Success, !.auth = r.auth,
                        !.deletedCount = r.n,
                        !.remainingCount = totalAfter, !.wrote = r.wrote,
                        !.removed = r.removed]

\* The request arrives and counts the rows
ClearArrive(clients) ==
    /\ resp.handler = "none"
    /\ \E c \in clients, auth \in BOOLEAN :
       LET status == ClearPlan(auth, Cardinality(table))
       IN  /\ Free(clients, c)
           /\ IF status # 0
              THEN /\ resp' = [NoResp EXCEPT !.handler = "clear", !.status = status,
                                             !.auth = auth, !.before = table]
                   /\ reqs' = reqs
              ELSE /\ reqs' = Step(c, [NoReq EXCEPT !.handler = "clear",
                                                     !.pc = "truncate",
                                                     !.auth = auth,
                                                     !.n = Cardinality(table)])
                   /\ resp' = NoResp
    /\ UNCHANGED <<table, seq, now, dbCall>>
    /\ UNCHANGED userVars
    /\ UNCHANGED timeVars
    /\ UNCHANGED cacheVars
    /\ UNCHANGED sendVars

\* TRUNCATE TABLE satellite_records RESTART IDENTITY
ClearTruncate(clients) ==
    /\ resp.handler = "none"
    /\ \E c \in clients :
       /\ reqs[c].handler = "clear" /\ reqs[c].pc = "truncate"
       /\ table' = TruncateTable.table
       /\ seq' = TruncateTable.seq
       /\ reqs' = Step(c, [reqs[c] EXCEPT !.pc = "recount", !.wrote = TRUE,
                                          !.removed = Cardinality(table)])
    /\ UNCHANGED <<now, dbCall, resp>>
    /\ UNCHANGED userVars
    /\ UNCHANGED timeVars
    /\ UNCHANGED cacheVars
    /\ UNCHANGED sendVars

\* The second COUNT and the answer
ClearRecount(clients) ==
    /\ resp.handler = "none"
    /\ \E c \in clients :
       /\ reqs[c].handler = "clear" /\ reqs[c].pc = "recount"
       /\ resp' = ClearAnswer(reqs[c], Cardinality(table))
       /\ reqs' = Step(c, NoReq)
    /\ UNCHANGED <<table, seq, now, dbCall>>
    /\ UNCHANGED userVars
    /\ UNCHANGED timeVars
    /\ UNCHANGED cacheVars
    /\ UNCHANGED sendVars

----------------------------------------------------------------------------
(* One record: GET, PUT and DELETE /api/records/[id] *)

\* parseInt(id) is a number
IsNumericId(id) == id.t = "number"

\* A handler that serves every method without verifyAuth
RecordWithoutAuth(method, auth, id) ==
    IF ~Truthy(id) \/ id.t # "number" THEN 400 ELSE 0

\* The handler before it looks at the method: 401, 400, or 0 to go on
RecordPlan(method, auth, id) ==
    IF method # "GET" /\ ~auth THEN Unauthorized
    ELSE IF ~Truthy(id) \/ ~IsNumericId(id) THEN 400
    ELSE 0

\* WHERE id = $1
WithId(tbl, recordId) == {rec \in tbl : rec.id = recordId}

\* The checks of handleUpdateRecord before its SELECT: 400 or 0
UpdatePlan(body) ==
    IF ~Truthy(Get(body, "plan_id")) \/ ~Truthy(Get(body, "start_time"))
       \/ ~Truthy(Get(body, "task_result")) THEN 400
    ELSE IF ~IsValidDate(NewDateFromString(Get(body, "start_time").s)) THEN 400
    ELSE 0

\* UPDATE satellite_records SET plan_id, start_time, task_result, updated_at
\* WHERE id = $4 RETURNING ...: refused when two rows would share a plan_id
UpdateById(tbl, recordId, body, clock) ==
    LET hit == WithId(tbl, recordId)
        plan == Trim(Get(body, "plan_id").s)
        upd(r) == [r EXCEPT !.plan_id = plan,
                            !.start_time = NewDateFromString(Get(body, "start_time").s).n,
                            !.task_result = Trim(Get(body, "task_result").s),
                            !.updated_at = clock]
        clash == \/ Cardinality(hit) > 1
                 \/ hit # {} /\ \E o \in tbl \ hit : o.plan_id = plan
    IN  IF clash THEN [ok |-> FALSE, table |-> tbl, rows |-> {}]
        ELSE [ok |-> TRUE, table |-> (tbl \ hit) \cup {upd(r) : r \in hit},
              rows |-> {upd(r) : r \in hit}]

\* DELETE FROM satellite_records WHERE id = $1
DeleteById(tbl, recordId) == tbl \ WithId(tbl, recordId)

Methods == {"GET", "PUT", "DELETE"}
IdInputs == {Num(i) : i \in 1..MaxSeq} \cup {Str(<<"abc">>)}

PutBody(plan, st, res) ==
    ("plan_id" :> plan) @@ ("start_time" :> st) @@ ("task_result" :> res)

GoodBody == PutBody(Str(<<" ", "B">>), Str(T2), Str(<<"shibai">>))
PutBodies ==
    {GoodBody,
     PutBody(Str(<<>>), Str(T1), Str(<<"zhengchang">>)),
     PutBody(Str(<<"A">>), Str(<<"bad">>), Str(<<"zhengchang">>))}

\* The request arrives and runs up to its first statement, the SELECT by id
RecordArrive(clients) ==
    /\ resp.handler = "none"
    /\ \E c \in clients, method \in Methods, auth \in BOOLEAN, id \in IdInputs,
          body \in PutBodies :
       LET status == RecordPlan(method, auth, id)
           found == WithId(table, id.n)
           answer(st) == [NoResp EXCEPT !.handler = method, !.status = st, !.auth = auth,
                                        !.id = id, !.before = table]
           r == [NoReq EXCEPT !.handler = method, !.auth = auth, !.id = id.n,
                              !.body = body]
       IN  /\ Free(clients, c)
           /\ (method # "PUT" \/ ~auth) => body = GoodBody
           /\ method = "GET" => auth
           /\ IF status # 0
              THEN resp' = answer(status) /\ reqs' = reqs
              ELSE IF method = "PUT" /\ UpdatePlan(body) # 0
              THEN resp' = answer(UpdatePlan(body)) /\ reqs' = reqs
              ELSE IF found = {}
              THEN resp' = answer(404) /\ reqs' = reqs
              ELSE IF method = "GET"
              THEN resp' = [answer(Success) EXCEPT !.data = found] /\ reqs' = reqs
              ELSE /\ resp' = NoResp
                   /\ reqs' = Step(c,
                        IF method = "PUT" THEN [r EXCEPT !.pc = "update"]
                        ELSE [r EXCEPT !.pc = "delete",
                                       !.plan_id = (CHOOSE rec \in found : TRUE).plan_id])
    /\ UNCHANGED <<table, seq, now, dbCall>>
    /\ UNCHANGED userVars
    /\ UNCHANGED timeVars
    /\ UNCHANGED cacheVars
    /\ UNCHANGED sendVars

\* handleUpdateRecord after its SELECT: the UPDATE and the answer
RecordUpdate(clients) ==
    /\ resp.handler = "none"
    /\ \E c \in clients :
       /\ reqs[c].handler = "PUT" /\ reqs[c].pc = "update"
       /\ LET u == UpdateById(table, reqs[c].id, reqs[c].body, now)
          IN  /\ table' = u.table
              /\ reqs' = Step(c, NoReq)
              /\ resp' = [NoResp EXCEPT !.handler = "PUT", !.auth = reqs[c].auth,
                                        !.status = IF u.ok THEN Success ELSE ServerError,
                                        !.id = Num(reqs[c].id), !.data = u.rows,
                                        !.wrote = TRUE, !.before = table]
    /\ UNCHANGED <<seq, now, dbCall>>
    /\ UNCHANGED userVars
    /\ UNCHANGED timeVars
    /\ UNCHANGED cacheVars
    /\ UNCHANGED sendVars

\* handleDeleteRecord after its SELECT: the DELETE and the answer
RecordDelete(clients) ==
    /\ resp.handler = "none"
    /\ \E c \in clients :
       /\ reqs[c].handler = "DELETE" /\ reqs[c].pc = "delete"
       /\ table' = DeleteById(table, reqs[c].id)
       /\ reqs' = Step(c, NoReq)
       /\ resp' = [NoResp EXCEPT !.handler = "DELETE", !.status = Success,
                                 !.auth = reqs[c].auth,
                                 !.id = Num(reqs[c].id), !.data = WithId(table, reqs[c].id),
                                 !.wrote = TRUE, !.before = table,
                                 !.removed = Cardinality(WithId(table, reqs[c].id))]
    /\ UNCHANGED <<seq, now, dbCall>>
    /\ UNCHANGED userVars
    /\ UNCHANGED timeVars
    /\ UNCHANGED cacheVars
    /\ UNCHANGED sendVars

----------------------------------------------------------------------------
(* The export handler: GET /api/export *)

\* The handler before getRecords: 401, or 0 to go on
ExportPlan(auth) == IF ~auth THEN Unauthorized ELSE 0

\* The answer once getRecords gave n records
ExportAnswer(n) == IF n = 0 THEN 404 ELSE 200

\* The request arrives; getRecords answers from the table or from a result it
\* kept, which may hold records when the table holds none and none when the
\* table holds some
ExportArrive ==
    /\ resp.handler = "none"
    /\ \E auth \in BOOLEAN, n \in {0, 1, Cardinality(table)} :
       /\ ~auth => n = 0
       /\ resp' = IF ExportPlan(auth) # 0
                  THEN [NoResp EXCEPT !.handler = "export", !.auth = auth,
                                      !.status = ExportPlan(auth), !.before = table]
                  ELSE [NoResp EXCEPT !.handler = "export", !.auth = auth,
                                      !.status = ExportAnswer(n), !.queried = TRUE,
                                      !.before = table]
    /\ UNCHANGED <<table, seq, now, dbCall, reqs>>
    /\ UNCHANGED userVars
    /\ UNCHANGED timeVars
    /\ UNCHANGED cacheVars
    /\ UNCHANGED sendVars

\* The answer leaves; the next step of any request follows it
Deliver ==
    /\ resp.handler # "none"
    /\ resp' = NoResp
    /\ UNCHANGED <<table, seq, now, dbCall, reqs>>
    /\ UNCHANGED userVars
    /\ UNCHANGED timeVars
    /\ UNCHANGED cacheVars
    /\ UNCHANGED sendVars

----------------------------------------------------------------------------
(* Import and clear serving one client at a time, any rows *)

OneClient == {1}

Next ==
    \/ ImportArrive(OneClient, ApiBatches, BOOLEAN, FaultKinds)
    \/ ImportInsert(OneClient, FaultKinds)
    \/ ClearArrive(OneClient) \/ ClearTruncate(OneClient) \/ ClearRecount(OneClient)
    \/ Deliver

Spec == Init /\ [][Next]_vars

(* All the handlers serving two clients at once, well-formed rows *)

ConcBatches == {<<RowA1>>, <<RowB1>>, <<RowA1, RowB1>>}

NextConc ==
    \/ ImportArrive(Clients, ConcBatches, {FALSE}, {"none", "commit"})
    \/ ImportInsert(Clients, {"none", "commit"})
    \/ ClearArrive(Clients) \/ ClearTruncate(Clients) \/ ClearRecount(Clients)
    \/ RecordArrive(Clients) \/ RecordUpdate(Clients) \/ RecordDelete(Clients)
    \/ ExportArrive
    \/ Deliver

SpecConc == Init /\ [][NextConc]_vars

----------------------------------------------------------------------------
(* The users table: initDatabase, createDefaultUser, /api/test-password,    *)
(* /api/debug-users and /api/login                                          *)

\* A row of users: username is UNIQUE; by names the code that inserted it
UserRow(username, by) == [username |-> username, by |-> by]
Named(username) == {u \in users : u.username = username}

\* INSERT INTO users (username, ...): the rows after it; a second row with the
\* same username is a unique violation and adds nothing
InsertUser(username, by) ==
    IF Named(username) # {} THEN users ELSE users \cup {UserRow(username, by)}

UserHandlers == {"test-password", "debug-users", "login"}
Usernames == {"admin", "bob"}
PasswordActions == {"test", "reset"}

\* A request to one of the three endpoints arrives and calls initDatabase, which
\* returns at once when isInitialized is set and else asks which tables exist
UserArrive(clients) ==
    /\ resp.handler = "none"
    /\ \E c \in clients, handler \in UserHandlers, username \in Usernames,
          action \in PasswordActions :
       /\ Free(clients, c)
       /\ handler # "test-password" => action = "test"
       /\ handler = "debug-users" => username = "admin"
       /\ reqs' = Step(c, [NoReq EXCEPT !.handler = handler, !.username = username,
                                        !.mode = action,
                                        !.pc = IF boot.isInitialized THEN "body"
                                               ELSE "tableCheck"])
    /\ UNCHANGED <<table, seq, now, dbCall, resp, users, boot>>
    /\ UNCHANGED cacheVars
    /\ UNCHANGED timeVars
    /\ UNCHANGED sendVars

\* initDatabase: the answer of the table check; with both tables there the
\* flag is set and nothing else is done
InitTableCheck(clients) ==
    /\ resp.handler = "none"
    /\ \E c \in clients :
       /\ reqs[c].handler \in UserHandlers /\ reqs[c].pc = "tableCheck"
       /\ IF boot.tables
          THEN /\ boot' = [boot EXCEPT !.isInitialized = TRUE]
               /\ reqs' = Step(c, [reqs[c] EXCEPT !.pc = "body"])
          ELSE /\ boot' = boot
               /\ reqs' = Step(c, [reqs[c] EXCEPT !.pc = "create"])
    /\ UNCHANGED <<table, seq, now, dbCall, resp, users>>
    /\ UNCHANGED cacheVars
    /\ UNCHANGED timeVars
    /\ UNCHANGED sendVars

\* initDatabase: CREATE TABLE IF NOT EXISTS users, satellite_records and the
\* indexes
InitCreate(clients) ==
    /\ resp.handler = "none"
    /\ \E c \in clients :
       /\ reqs[c].handler \in UserHandlers /\ reqs[c].pc = "create"
       /\ boot' = [boot EXCEPT !.tables = TRUE]
       /\ reqs' = Step(c, [reqs[c] EXCEPT !.pc = "count"])
    /\ UNCHANGED <<table, seq, now, dbCall, resp, users>>
    /\ UNCHANGED cacheVars
    /\ UNCHANGED timeVars
    /\ UNCHANGED sendVars

\* createDefaultUser: SELECT COUNT(*) FROM users; it returns when there is a
\* user, and also when the query or the import of auth.js fails (the catch);
\* initDatabase then sets the flag
InitCount(clients) ==
    /\ resp.handler = "none"
    /\ \E c \in clients, ok \in BOOLEAN :
       /\ reqs[c].handler \in UserHandlers /\ reqs[c].pc = "count"
       /\ IF ~ok \/ users # {}
          THEN /\ boot' = [boot EXCEPT !.isInitialized = TRUE]
               /\ reqs' = Step(c, [reqs[c] EXCEPT !.pc = "body"])
          ELSE /\ boot' = boot
               /\ reqs' = Step(c, [reqs[c] EXCEPT !.pc = "insertDefault"])
    /\ UNCHANGED <<table, seq, now, dbCall, resp, users>>
    /\ UNCHANGED cacheVars
    /\ UNCHANGED timeVars
    /\ UNCHANGED sendVars

\* createDefaultUser: INSERT of the admin row (a unique violation is caught);
\* initDatabase then sets the flag
InitInsertDefault(clients) ==
    /\ resp.handler = "none"
    /\ \E c \in clients :
       /\ reqs[c].handler \in UserHandlers /\ reqs[c].pc = "insertDefault"
       /\ users' = InsertUser("admin", "bootstrap")
       /\ boot' = [boot EXCEPT !.isInitialized = TRUE]
       /\ reqs' = Step(c, [reqs[c] EXCEPT !.pc = "body"])
    /\ UNCHANGED <<table, seq, now, dbCall, resp>>
    /\ UNCHANGED cacheVars
    /\ UNCHANGED timeVars
    /\ UNCHANGED sendVars

\* The answer of a users endpoint
UserAnswer(r, status) == [NoResp EXCEPT !.handler = r.handler, !.status = status]

\* /api/test-password after initDatabase: action test only reads; action reset
\* runs UPDATE users ... WHERE username = $2 and goes on to the INSERT when
\* the UPDATE changed no row
TestPasswordBody(clients) ==
    /\ resp.handler = "none"
    /\ \E c \in clients :
       /\ reqs[c].handler = "test-password" /\ reqs[c].pc = "body"
       /\ IF reqs[c].mode = "reset" /\ Named(reqs[c].username) = {}
          THEN /\ reqs' = Step(c, [reqs[c] EXCEPT !.pc = "resetInsert"])
               /\ resp' = resp
          ELSE /\ reqs' = Step(c, NoReq)
               /\ resp' = UserAnswer(reqs[c], Success)
    /\ UNCHANGED <<table, seq, now, dbCall, users, boot>>
    /\ UNCHANGED cacheVars
    /\ UNCHANGED timeVars
    /\ UNCHANGED sendVars

\* /api/test-password, action reset: INSERT INTO users of the unknown username
TestPasswordInsert(clients) ==
    /\ resp.handler = "none"
    /\ \E c \in clients :
       /\ reqs[c].handler = "test-password" /\ reqs[c].pc = "resetInsert"
       /\ users' = InsertUser(reqs[c].username, "test-password")
       /\ reqs' = Step(c, NoReq)
       /\ resp' = UserAnswer(reqs[c], IF Named(reqs[c].username) = {} THEN Success
                                      ELSE ServerError)
    /\ UNCHANGED <<table, seq, now, dbCall, boot>>
    /\ UNCHANGED cacheVars
    /\ UNCHANGED timeVars
    /\ UNCHANGED sendVars

\* /api/debug-users after initDatabase: SELECT ... FROM users; with no row it
\* goes on to insert the admin itself
DebugUsersBody(clients) ==
    /\ resp.handler = "none"
    /\ \E c \in clients :
       /\ reqs[c].handler = "debug-users" /\ reqs[c].pc = "body"
       /\ IF users = {}
          THEN /\ reqs' = Step(c, [reqs[c] EXCEPT !.pc = "debugInsert"])
               /\ resp' = resp
          ELSE /\ reqs' = Step(c, NoReq)
               /\ resp' = UserAnswer(reqs[c], Success)
    /\ UNCHANGED <<table, seq, now, dbCall, users, boot>>
    /\ UNCHANGED cacheVars
    /\ UNCHANGED timeVars
    /\ UNCHANGED sendVars

\* /api/debug-users: INSERT of the admin row, the second SELECT and the answer
DebugUsersInsert(clients) ==
    /\ resp.handler = "none"
    /\ \E c \in clients :
       /\ reqs[c].handler = "debug-users" /\ reqs[c].pc = "debugInsert"
       /\ users' = InsertUser("admin", "debug-users")
       /\ reqs' = Step(c, NoReq)
       /\ resp' = UserAnswer(reqs[c], IF Named("admin") = {} THEN Success
                                      ELSE ServerError)
    /\ UNCHANGED <<table, seq, now, dbCall, boot>>
    /\ UNCHANGED cacheVars
    /\ UNCHANGED timeVars
    /\ UNCHANGED sendVars

\* /api/login after initDatabase: SELECT by username, the password check and
\* UPDATE users SET updated_at; valid is what verifyPassword says
LoginBody(clients) ==
    /\ resp.handler = "none"
    /\ \E c \in clients, valid \in BOOLEAN :
       /\ reqs[c].handler = "login" /\ reqs[c].pc = "body"
       /\ Named(reqs[c].username) = {} => ~valid
       /\ reqs' = Step(c, NoReq)
       /\ resp' = UserAnswer(reqs[c], IF valid THEN Success ELSE 401)
    /\ UNCHANGED <<table, seq, now, dbCall, users, boot>>
    /\ UNCHANGED cacheVars
    /\ UNCHANGED timeVars
    /\ UNCHANGED sendVars

NextUsers ==
    \/ UserArrive(Clients)
    \/ InitTableCheck(Clients) \/ InitCreate(Clients) \/ InitCount(Clients)
    \/ InitInsertDefault(Clients)
    \/ TestPasswordBody(Clients) \/ TestPasswordInsert(Clients)
    \/ DebugUsersBody(Clients) \/ DebugUsersInsert(Clients)
    \/ LoginBody(Clients)
    \/ Deliver

SpecUsers == Init /\ [][NextUsers]_vars

----------------------------------------------------------------------------
(* getRecords, getStats and the query cache *)

\* Number.MAX_SAFE_INTEGER, the default limit; here a number above the size of
\* every table and small enough for (page - 1) * limit
MaxSafeInteger == 1048576

\* CACHE_TTL, in minutes
CacheTtl == 5

\* The size of queryCache above which it is cleared before a result is stored
CacheLimit == 50

\* const { page = 1, limit = Number.MAX_SAFE_INTEGER, ... } = options
PageOf(options) ==
    IF Get(options, "page").t = "undefined" THEN 1 ELSE Get(options, "page").n

LimitOf(options) ==
    IF Get(options, "limit").t = "undefined" THEN MaxSafeInteger
    ELSE Get(options, "limit").n

\* The whereClause built from the options, without the taskResult condition
MatchesButTaskResult(rec, options) ==
    /\ Truthy(Get(options, "startDate")) => rec.start_time >= Get(options, "startDate").n
    /\ Truthy(Get(options, "endDate")) => rec.start_time <= Get(options, "endDate").n
    /\ Truthy(Get(options, "planId")) => rec.plan_id = Get(options, "planId").s
    /\ Truthy(Get(options, "customer")) => rec.customer = Get(options, "customer").s
    /\ Truthy(Get(options, "satelliteName")) =>
           rec.satellite_name = Get(options, "satelliteName").s
    /\ Truthy(Get(options, "stationName")) =>
           rec.station_name = Get(options, "stationName").s
    /\ Truthy(Get(options, "stationId")) => rec.station_id = Get(options, "stationId").s
    /\ Truthy(Get(options, "taskType")) => rec.task_type = Get(options, "taskType").s

\* The whereClause built from the options: a condition per truthy option
Matches(rec, options) ==
    /\ Truthy(Get(options, "startDate")) => rec.start_time >= Get(options, "startDate").n
    /\ Truthy(Get(options, "endDate")) => rec.start_time <= Get(options, "endDate").n
    /\ Truthy(Get(options, "taskResult")) => rec.task_result = Get(options, "taskResult").s
    /\ Truthy(Get(options, "planId")) => rec.plan_id = Get(options, "planId").s
    /\ Truthy(Get(options, "customer")) => rec.customer = Get(options, "customer").s
    /\ Truthy(Get(options, "satelliteName")) =>
           rec.satellite_name = Get(options, "satelliteName").s
    /\ Truthy(Get(options, "stationName")) =>
           rec.station_name = Get(options, "stationName").s
    /\ Truthy(Get(options, "stationId")) => rec.station_id = Get(options, "stationId").s
    /\ Truthy(Get(options, "taskType")) => rec.task_type = Get(options, "taskType").s

\* The columns of the SELECT list
Selected(rec) ==
    [id |-> rec.id, plan_id |-> rec.plan_id, customer |-> rec.customer,
     satellite_name |-> rec.satellite_name, station_name |-> rec.station_name,
     station_id |-> rec.station_id, start_time |-> rec.start_time,
     task_type |-> rec.task_type, task_result |-> rec.task_result,
     raw_data |-> rec.raw_data, created_at |-> rec.created_at]

\* ORDER BY start_time DESC: every arrangement of the rows in which start_time
\* never increases; rows of equal start_time come in any order
OrderByStartTimeDesc(rows) ==
    {q \in [1..Cardinality(rows) -> rows] :
        /\ \A i, j \in DOMAIN q : i # j => q[i] # q[j]
        /\ \A i, j \in DOMAIN q : i < j => q[i].start_time >= q[j].start_time}

\* LIMIT limit OFFSET offset
LimitOffset(q, limit, offset) ==
    SubSeq(q, offset + 1, IF offset + limit < Len(q) THEN offset + limit ELSE Len(q))

\* Math.ceil(total / limit), limit > 0
Ceil(total, limit) == (total + limit - 1) \div limit

\* The result object built from the rows of the page query and the count
QueryResult(rows, total, options) ==
    [records |-> rows, total |-> total, page |-> PageOf(options),
     limit |-> LimitOf(options), totalPages |-> Ceil(total, LimitOf(options))]

\* The results the two statements can give on a table
QueryResults(tbl, options) ==
    {QueryResult(LimitOffset(q, LimitOf(options), (PageOf(options) - 1) * LimitOf(options)),
                 Cardinality({rec \in tbl : Matches(rec, options)}), options) :
        q \in OrderByStartTimeDesc({Selected(rec) : rec \in {rec \in tbl : Matches(rec, options)}})}

\* cacheKey = JSON.stringify(options)
CacheKey(options) == JsonStringify(options)

\* The fresh entries if an entry were fresh whatever its age
CacheHitOfAnyAge(cache, key, time) == {e \in cache : e.key = key}

\* queryCache.get(cacheKey)
Cached(cache, key) == {e \in cache : e.key = key}

\* cached && (Date.now() - cached.timestamp) < CACHE_TTL
CacheHit(cache, key, time) == {e \in Cached(cache, key) : time - e.timestamp < CacheTtl}

\* The entries kept when a result is stored: none of a cache above the limit
KeptAlways(cache) == cache

\* if (queryCache.size > 50) queryCache.clear()
Kept(cache) == IF Cardinality(cache) > CacheLimit THEN {} ELSE cache

\* queryCache.set(cacheKey, { data, timestamp })
CacheSet(cache, key, data, time) ==
    {e \in cache : e.key # key} \cup {[key |-> key, data |-> data, timestamp |-> time]}

\* The results counted as failures if the untracked passes were left out
FailureResultsButUntracked ==
    {<<"yinshebeiguzhangshibai">>, <<"yincaozuoshiwushibai">>,
     <<"yinweixingfangyuanyinshibai">>, <<"renwuchenggongshujuchulishiwu">>}

\* getStats: the aggregates over the rows of the time range
FailureResults ==
    {<<"yinshebeiguzhangshibai">>, <<"yincaozuoshiwushibai">>, <<"weigenzong">>,
     <<"yinweixingfangyuanyinshibai">>, <<"renwuchenggongshujuchulishiwu">>}

InRange(rec, options) ==
    /\ Truthy(Get(options, "startDate")) => rec.start_time >= Get(options, "startDate").n
    /\ Truthy(Get(options, "endDate")) => rec.start_time <= Get(options, "endDate").n

\* COUNT(...) is a bigint, which pg hands over as text
PgCount(n) == [t |-> "string", s |-> <<"digits">>, n |-> n]

getStatsOf(rows) ==
    [total_plans |-> PgCount(Cardinality({rec.plan_id : rec \in rows})),
     total_records |-> PgCount(Cardinality(rows)),
     total_failures |-> PgCount(Cardinality({rec \in rows :
                                                rec.task_result \in FailureResults})),
     earliest_time |-> IF rows = {} THEN Null
                       ELSE DateV(CHOOSE t \in {rec.start_time : rec \in rows} :
                                      \A rec \in rows : t <= rec.start_time),
     latest_time |-> IF rows = {} THEN Null
                     ELSE DateV(CHOOSE t \in {rec.start_time : rec \in rows} :
                                    \A rec \in rows : t >= rec.start_time)]

getStats(tbl, options) == getStatsOf({rec \in tbl : InRange(rec, options)})

\* The options the callers pass
MaxMinutes == 5     \* minutes the process clock advances
MaxCached == 1      \* distinct option objects asked for while the cache lives
MaxWrites == 2      \* imports between two clearings of the table

Instant(text) == DateV(parseFileTime(Str(text)).n)

PageLimit(p, l) == ("page" :> Num(p)) @@ ("limit" :> Num(l))

PageOptions == {PageLimit(1, 1), PageLimit(2, 1), PageLimit(1, 2)}

FilterOptions ==
    {"taskResult" :> Str(<<"zhengchang">>), "taskResult" :> Str(<<>>),
     "planId" :> Str(<<"A">>), "customer" :> Str(<<"KH1">>),
     "satelliteName" :> Str(<<"WX1">>), "stationName" :> Str(<<"CZ1">>),
     "stationId" :> Str(<<"ID1">>), "taskType" :> Str(<<"LX1">>),
     "startDate" :> Instant(T2), "endDate" :> Instant(T1),
     ("startDate" :> Instant(T1)) @@ ("endDate" :> Instant(T2)),
     ("taskResult" :> Str(<<"zhengchang">>)) @@ ("customer" :> Str(<<"KH1">>)),
     ("taskResult" :> Str(<<"shibai">>)) @@ ("page" :> Num(1)) @@ ("limit" :> Num(1))}

QueryOptions == {<<>>} \cup FilterOptions

AllIdle == \A c \in Clients : qCalls[c].pc = "idle"

\* getRecords up to the await: the cached result if there is a fresh one,
\* else the two statements are sent
GetRecordsCall(clients, optionSet, maxCached) ==
    \E c \in clients, options \in optionSet :
        /\ qCalls[c].pc = "idle"
        /\ \A d \in clients : d < c => qCalls[d].pc # "idle"
        /\ IF CacheHit(queryCache, CacheKey(options), dateNow) # {}
           THEN \E e \in CacheHit(queryCache, CacheKey(options), dateNow) :
                    qCalls' = [qCalls EXCEPT ![c] =
                        [pc |-> "done", options |-> options, result |-> e.data,
                         hit |-> TRUE, queries |-> 0, seen |-> {},
                         at |-> dateNow, took |-> dateNow]]
           ELSE /\ Cardinality({e.key : e \in queryCache} \cup {CacheKey(options)})
                       <= maxCached
                /\ qCalls' = [qCalls EXCEPT ![c] =
                       [QIdle EXCEPT !.pc = "querying", !.options = options,
                                     !.at = dateNow]]
        /\ UNCHANGED <<table, seq, now, dbCall, reqs, resp, queryCache, dateNow>>
        /\ UNCHANGED userVars
        /\ UNCHANGED timeVars
        /\ UNCHANGED sendVars

\* getRecords after the await: the result is built, stored and returned
GetRecordsQuery(clients) ==
    \E c \in clients :
        /\ qCalls[c].pc = "querying"
        /\ \E res \in QueryResults(table, qCalls[c].options) :
            /\ queryCache' = CacheSet(Kept(queryCache), CacheKey(qCalls[c].options),
                                      res, dateNow)
            /\ qCalls' = [qCalls EXCEPT ![c] =
                   [pc |-> "done", options |-> qCalls[c].options, result |-> res,
                    hit |-> FALSE, queries |-> 2, seen |-> table,
                    at |-> qCalls[c].at, took |-> dateNow]]
        /\ UNCHANGED <<table, seq, now, dbCall, reqs, resp, dateNow>>
        /\ UNCHANGED userVars
        /\ UNCHANGED timeVars
        /\ UNCHANGED sendVars

\* The caller takes the result
GetRecordsReturn(clients) ==
    \E c \in clients :
        /\ qCalls[c].pc = "done"
        /\ qCalls' = [qCalls EXCEPT ![c] = QIdle]
        /\ UNCHANGED <<table, seq, now, dbCall, reqs, resp, queryCache, dateNow>>
        /\ UNCHANGED userVars
        /\ UNCHANGED timeVars
        /\ UNCHANGED sendVars

\* A minute passes in the process
CacheTick ==
    /\ dateNow < MaxMinutes
    /\ dateNow' = dateNow + 1
    /\ UNCHANGED <<table, seq, now, dbCall, reqs, resp, queryCache, qCalls>>
    /\ UNCHANGED userVars
    /\ UNCHANGED timeVars
    /\ UNCHANGED sendVars

\* The writes of the handlers, between two calls of getRecords: an import of
\* one row, the removal of one record, the clearing of the table
QueryRows == {RowA1, RowA2, RowB1}

WriteImport(rows, writes) ==
    \E row \in rows :
        /\ AllIdle
        /\ seq < writes
        /\ table' = batchInsertRecords(table, seq, now, <<row>>, NoFault).table
        /\ seq' = batchInsertRecords(table, seq, now, <<row>>, NoFault).seq
        /\ UNCHANGED <<now, dbCall, reqs, resp>>
        /\ UNCHANGED userVars
        /\ UNCHANGED timeVars
        /\ UNCHANGED cacheVars
        /\ UNCHANGED sendVars

WriteDelete ==
    \E rec \in table :
        /\ AllIdle
        /\ table' = DeleteById(table, rec.id)
        /\ UNCHANGED <<seq, now, dbCall, reqs, resp>>
        /\ UNCHANGED userVars
        /\ UNCHANGED timeVars
        /\ UNCHANGED cacheVars
        /\ UNCHANGED sendVars

WriteClear ==
    /\ AllIdle
    /\ table # {}
    /\ table' = TruncateTable.table
    /\ seq' = TruncateTable.seq
    /\ UNCHANGED <<now, dbCall, reqs, resp>>
    /\ UNCHANGED userVars
    /\ UNCHANGED timeVars
    /\ UNCHANGED cacheVars
    /\ UNCHANGED sendVars

NextQuery ==
    \/ GetRecordsCall({1}, QueryOptions, MaxCached)
    \/ GetRecordsQuery({1})
    \/ GetRecordsReturn({1})
    \/ WriteImport(QueryRows, MaxWrites) \/ WriteDelete \/ WriteClear

SpecQuery == Init /\ [][NextQuery]_vars

\* /api/stats
\* parseInt(text) || 0 and the number a count text stands for in > - / *
ParseInt(v) == v.n

\* x.toFixed(2) of x = numer / denom * 100: the text of x rounded to hundredths,
\* kept as its number of hundredths
ToFixed2(numer, denom) ==
    [t |-> "string", s |-> <<"toFixed(2)">>, n |-> (2 * numer * 10000 + denom) \div (2 * denom)]

\* The rate computed without the test for total_records > 0: NaN.toFixed(2)
SuccessRateUnguarded(stats) ==
    IF ParseInt(stats.total_records) > 0
    THEN ToFixed2(ParseInt(stats.total_records) - ParseInt(stats.total_failures),
                  ParseInt(stats.total_records))
    ELSE Str(<<"NaN">>)

SuccessRate(stats) ==
    IF ParseInt(stats.total_records) > 0
    THEN ToFixed2(ParseInt(stats.total_records) - ParseInt(stats.total_failures),
                  ParseInt(stats.total_records))
    ELSE Num(0)

processedStats(stats) ==
    [total_records |-> ParseInt(stats.total_records),
     total_plans |-> ParseInt(stats.total_plans),
     total_failures |-> ParseInt(stats.total_failures),
     earliest_time |-> stats.earliest_time,
     latest_time |-> stats.latest_time,
     success_rate |-> SuccessRate(stats)]

RowCFail == CnRow(Str(<<"C">>), Str(T2), Str(<<"weigenzong">>))

StatsRows == {RowA1, RowB1, RowCFail}

RangeOptions ==
    {<<>>, "startDate" :> Instant(T2), "endDate" :> Instant(T1),
     ("startDate" :> Instant(T1)) @@ ("endDate" :> Instant(T2))}

\* GET /api/stats: the answer when the statement succeeds and when it fails
StatsArrive ==
    /\ resp.handler = "none"
    /\ \E options \in RangeOptions, ok \in BOOLEAN :
           resp' = IF ok
                   THEN [NoResp EXCEPT !.handler = "stats", !.status = Success,
                                       !.query = options, !.queried = TRUE,
                                       !.before = table,
                                       !.data = processedStats(getStats(table, options))]
                   ELSE [NoResp EXCEPT !.handler = "stats", !.status = ServerError,
                                       !.query = options, !.queried = TRUE,
                                       !.before = table]
    /\ UNCHANGED <<table, seq, now, dbCall, reqs>>
    /\ UNCHANGED userVars
    /\ UNCHANGED timeVars
    /\ UNCHANGED cacheVars
    /\ UNCHANGED sendVars

NextStats ==
    \/ StatsArrive
    \/ Deliver
    \/ WriteImport(StatsRows, MaxSeq) \/ WriteDelete \/ WriteClear

SpecStats == Init /\ [][NextStats]_vars

\* /api/stats over records of every task result
ResultRow(plan, st, result) == CnRow(Str(<<plan>>), Str(st), Str(<<result>>))

ResultRows ==
    {ResultRow("A", T1, "zhengchang"),
     ResultRow("B", T2, "shibai"),
     ResultRow("C", T1, "yinshebeiguzhangshibai"),
     ResultRow("D", T2, "yincaozuoshiwushibai"),
     ResultRow("E", T1, "weigenzong"),
     ResultRow("F", T2, "yinweixingfangyuanyinshibai"),
     ResultRow("G", T1, "renwuchenggongshujuchulishiwu"),
     ResultRow("A", T2, "weigenzong")}

\* The writes happen between an answer and the next request
NextResults ==
    \/ StatsArrive
    \/ Deliver
    \/ resp.handler = "none" /\ WriteImport(ResultRows, MaxWrites)
    \/ resp.handler = "none" /\ WriteDelete
    \/ resp.handler = "none" /\ WriteClear

SpecResults == Init /\ [][NextResults]_vars

\* Two callers fetching pages, between the writes
NextPages ==
    \/ GetRecordsCall(Clients, PageOptions, MaxCached)
    \/ GetRecordsQuery(Clients)
    \/ GetRecordsReturn(Clients)
    \/ WriteImport(QueryRows, MaxWrites) \/ WriteDelete \/ WriteClear

SpecPages == Init /\ [][NextPages]_vars

\* Two callers asking for the same results again and again while time passes
\* and records are imported
TtlOptions == {<<>>, "taskResult" :> Undefined}

NextTtl ==
    \/ GetRecordsCall(Clients, TtlOptions, MaxCached)
    \/ GetRecordsQuery(Clients)
    \/ GetRecordsReturn(Clients)
    \/ CacheTick
    \/ WriteImport({RowB1}, MaxWrites)

SpecTtl == Init /\ [][NextTtl]_vars

\* Two callers asking for ever new pages: page 1 again, or the page after the
\* highest page that is cached or being fetched
MaxKeys == 53       \* distinct option objects the callers ask for

PagesInUse ==
    {e.key["page"].n : e \in queryCache} \cup
    {qCalls[c].options["page"].n : c \in {c \in Clients : qCalls[c].pc # "idle"}}

FreshPagesOf(used) ==
    IF used = 1..Cardinality(used) /\ Cardinality(used) < MaxKeys
    THEN {Cardinality(used) + 1}
    ELSE {}

FreshPages == FreshPagesOf(PagesInUse)

NextCache ==
    \/ GetRecordsCall(Clients, {"page" :> Num(p) : p \in {1} \cup FreshPages}, MaxKeys)
    \/ GetRecordsQuery(Clients)
    \/ GetRecordsReturn(Clients)

SpecCache == Init /\ [][NextCache]_vars

\* getRecords when pool.query rejects
\* A getRecords that stamps the entry of the key before its statements run
CacheRefreshedOnError(cache, key, time) ==
    {IF e.key = key THEN [e EXCEPT !.timestamp = time] ELSE e : e \in cache}

\* The rejection leaves the await of Promise.all as a throw, past the
\* statements that clear and set queryCache
CacheOnError(cache, key, time) == cache

QueryNames == {"page", "count"}

\* getRecords after the await when one of the two statements failed: query
\* logs and rethrows, Promise.all rejects, getRecords throws
GetRecordsFail(clients) ==
    \E c \in clients, failed \in QueryNames :
        /\ qCalls[c].pc = "querying"
        /\ queryCache' = CacheOnError(queryCache, CacheKey(qCalls[c].options), dateNow)
        /\ qCalls' = [qCalls EXCEPT ![c] =
               [pc |-> "threw", options |-> qCalls[c].options,
                result |-> [error |-> failed],
                hit |-> FALSE, queries |-> 2, seen |-> table,
                at |-> qCalls[c].at, took |-> dateNow]]
        /\ UNCHANGED <<table, seq, now, dbCall, reqs, resp, dateNow>>
        /\ UNCHANGED userVars
        /\ UNCHANGED timeVars
        /\ UNCHANGED sendVars

\* The caller catches the error and gives up
GetRecordsCatch(clients) ==
    \E c \in clients :
        /\ qCalls[c].pc = "threw"
        /\ qCalls' = [qCalls EXCEPT ![c] = QIdle]
        /\ UNCHANGED <<table, seq, now, dbCall, reqs, resp, queryCache, dateNow>>
        /\ UNCHANGED userVars
        /\ UNCHANGED timeVars
        /\ UNCHANGED sendVars

\* The caller catches the error and calls getRecords again with the same
\* options: up to the await, as any call
GetRecordsAgain(clients) ==
    \E c \in clients :
        /\ qCalls[c].pc = "threw"
        /\ IF CacheHit(queryCache, CacheKey(qCalls[c].options), dateNow) # {}
           THEN \E e \in CacheHit(queryCache, CacheKey(qCalls[c].options), dateNow) :
                    qCalls' = [qCalls EXCEPT ![c] =
                        [pc |-> "done", options |-> qCalls[c].options,
                         result |-> e.data, hit |-> TRUE, queries |-> 0, seen |-> {},
                         at |-> dateNow, took |-> dateNow]]
           ELSE qCalls' = [qCalls EXCEPT ![c] =
                    [QIdle EXCEPT !.pc = "querying", !.options = qCalls[c].options,
                                  !.at = dateNow]]
        /\ UNCHANGED <<table, seq, now, dbCall, reqs, resp, queryCache, dateNow>>
        /\ UNCHANGED userVars
        /\ UNCHANGED timeVars
        /\ UNCHANGED sendVars

\* Two callers whose statements may fail, while time passes and records are
\* imported
NextFail ==
    \/ GetRecordsCall(Clients, TtlOptions, MaxCached)
    \/ GetRecordsQuery(Clients)
    \/ GetRecordsFail(Clients)
    \/ GetRecordsReturn(Clients)
    \/ GetRecordsCatch(Clients)
    \/ GetRecordsAgain(Clients)
    \/ CacheTick
    \/ WriteImport({RowB1}, MaxWrites)

SpecFail == Init /\ [][NextFail]_vars

\* An import sent as several requests to /api/import-batch, every request
\* carrying the mode of the import
UploadBatches == {<<RowA1>>, <<RowB1>>, <<RowCFail>>, <<RowA1, RowB1>>}
Uploads == {<<a, b>> : a \in UploadBatches, b \in UploadBatches}

\* The sender splits its rows and picks the mode
UploadStart ==
    /\ upload.pc = "idle"
    /\ resp.handler = "none"
    /\ \E batches \in Uploads, mode \in Modes :
           upload' = [pc |-> "sending", mode |-> mode, batches |-> batches,
                      sent |-> 0, before |-> table]
    /\ UNCHANGED <<table, seq, now, dbCall, reqs, resp>>
    /\ UNCHANGED userVars
    /\ UNCHANGED timeVars
    /\ UNCHANGED cacheVars

\* POST /api/import-batch with the next batch arrives and runs up to its first
\* statement
UploadSend(clients) ==
    /\ upload.pc = "sending"
    /\ resp.handler = "none"
    /\ \E c \in clients :
          /\ Free(clients, c)
          /\ ImportStart(c, "import-batch", TRUE, upload.batches[upload.sent + 1],
                         upload.mode, FALSE,
                         ImportPlan("import-batch", TRUE,
                                    upload.batches[upload.sent + 1], upload.mode,
                                    FALSE, FALSE),
                         {"none"})
    /\ upload' = [upload EXCEPT !.pc = "waiting", !.sent = @ + 1]
    /\ UNCHANGED <<now, dbCall>>
    /\ UNCHANGED userVars
    /\ UNCHANGED timeVars
    /\ UNCHANGED cacheVars

\* The sender receives the answer to a batch: it sends the next one, has
\* finished, or gives up
UploadAnswer ==
    /\ upload.pc = "waiting"
    /\ resp.handler \in ImportHandlers
    /\ resp' = NoResp
    /\ upload' = [upload EXCEPT !.pc =
                     IF resp.status # Success THEN "failed"
                     ELSE IF upload.sent = Len(upload.batches) THEN "done"
                     ELSE "sending"]
    /\ UNCHANGED <<table, seq, now, dbCall, reqs>>
    /\ UNCHANGED userVars
    /\ UNCHANGED timeVars
    /\ UNCHANGED cacheVars

\* The sender is done with the import
UploadEnd ==
    /\ upload.pc \in {"done", "failed"}
    /\ upload' = NoUpload
    /\ UNCHANGED <<table, seq, now, dbCall, reqs, resp>>
    /\ UNCHANGED userVars
    /\ UNCHANGED timeVars
    /\ UNCHANGED cacheVars

NextBatches ==
    \/ UploadStart
    \/ UploadSend(OneClient)
    \/ ImportInsert(OneClient, {"none"})
    \/ UploadAnswer
    \/ UploadEnd

SpecBatches == Init /\ [][NextBatches]_vars

\* One import request at a time, of a few rows or of more rows than one
\* chunk holds, with the faults of the connection
MaxRows == 101      \* rows of the largest file

BigRows ==
    [i \in 1..MaxRows |->
        CnRow(Str(<<"P", ToString(i)>>), Str(T1), Str(<<"zhengchang">>)) @@ CnExtras]

AtomicBatches == {<<RowA1>>, BigRows}

\* POST /api/import or /api/import-batch arrives and runs up to its first
\* statement; the table it found is kept for comparison
AtomicArrive(clients) ==
    /\ upload.pc = "idle"
    /\ resp.handler = "none"
    /\ \E c \in clients, handler \in ImportHandlers, rows \in AtomicBatches,
          mode \in Modes :
       \E batch \in BatchFlags(handler, rows) :
          /\ Free(clients, c)
          /\ Len(rows) > BatchSize => handler = "import"
          /\ ImportStartUpTo(c, handler, TRUE, rows, mode, FALSE,
                             ImportPlan(handler, TRUE, rows, mode, FALSE, batch),
                             FaultKinds,
                             IF Len(rows) > BatchSize THEN MaxSeq + BatchSize
                             ELSE MaxSeq)
          /\ upload' = [pc |-> "waiting", mode |-> mode, batches |-> <<rows>>,
                        sent |-> 1, before |-> table]
    /\ UNCHANGED <<now, dbCall>>
    /\ UNCHANGED userVars
    /\ UNCHANGED timeVars
    /\ UNCHANGED cacheVars

NextAtomic ==
    \/ AtomicArrive(OneClient)
    \/ ImportInsertUpTo(OneClient, FaultKinds, MaxSeq + MaxRows)
    \/ UploadAnswer
    \/ UploadEnd

SpecAtomic == Init /\ [][NextAtomic]_vars

\* Imports of rows whose plan identifier comes with spaces around it or is
\* nothing but a space, under each of the three column titles
TitleRow(pid, st, res) ==
    ("Plan ID" :> pid) @@ ("Start Time" :> st) @@ ("Task Result" :> res)

PaddedRows ==
    {RowA1,
     CnRow(Str(<<" ", "A">>), Str(T2), Str(<<"shibai">>)) @@ CnExtras,
     EnRow(Str(<<"A", " ">>), Str(T2), Str(<<"shibai">>)) @@ EnExtras,
     TitleRow(Str(<<" ", "A", " ">>), Str(T2), Str(<<"shibai">>)),
     CnRow(Str(<<" ">>), Str(T1), Str(<<"zhengchang">>)),
     EnRow(Str(<<" ">>), Str(T1), Str(<<"zhengchang">>)),
     TitleRow(Str(<<" ">>), Str(T1), Str(<<"zhengchang">>))}

PaddedBatches == SeqsUpTo(PaddedRows, MaxBatch)

NextPadded ==
    \/ ImportArrive(OneClient, PaddedBatches, BOOLEAN, {"none"})
    \/ ImportInsert(OneClient, {"none"})
    \/ Deliver

SpecPadded == Init /\ [][NextPadded]_vars

----------------------------------------------------------------------------
(* The conversions of a start time *)

\* startTime.replace(/[TZ]/g, ' ')
ReplaceTZ(s) == [i \in DOMAIN s |-> IF s[i] \in {"T", "Z"} THEN " " ELSE s[i]]

\* .replace(/[+-]\d{2}:\d{2}$/, '')
StripOffset(s) ==
    IF Len(s) > 0 /\ s[Len(s)] = "+08:00" THEN SubSeq(s, 1, Len(s) - 1) ELSE s

\* The client: the string without its zone markers, then new Date of it
ClientTime(startTime) ==
    IF startTime.t = "string"
    THEN NewDateFromString(Trim(StripOffset(ReplaceTZ(startTime.s))))
    ELSE startTime

TimeZones == {-5, 0, 8}

TimeStrings ==
    {<<d, sep, c>> : d \in {"2024-01-01", "2024-01-02"}, sep \in {" ", "T"},
                     c \in {"08:00:00", "09:00:00"}}

ZonedStrings == {Append(s, z) : s \in TimeStrings, z \in {"Z", "+08:00"}}

TimeSerials == {45000, 45001}

TimeValues ==
    {Str(s) : s \in TimeStrings \cup ZonedStrings \cup {<<"bad">>}} \cup
    {Num(v) : v \in TimeSerials}

\* A process running in some time zone is handed a time value
TimeGiven ==
    /\ conv.pc = "idle"
    /\ \E zone \in TimeZones, value \in TimeValues :
        /\ tz' = zone
        /\ conv' = [NoConv EXCEPT !.pc = "given", !.value = value]
    /\ UNCHANGED <<table, seq, now, dbCall, reqs, resp>>
    /\ UNCHANGED userVars
    /\ UNCHANGED cacheVars
    /\ UNCHANGED sendVars

\* The import path: the conversion of the import handlers and parseFileTime
TimeImport ==
    /\ conv.pc = "given"
    /\ conv' = [conv EXCEPT !.pc = "imported",
                            !.handler = ParsedTime(conv.value),
                            !.server = parseFileTime(conv.value)]
    /\ UNCHANGED <<table, seq, now, dbCall, reqs, resp, tz>>
    /\ UNCHANGED userVars
    /\ UNCHANGED cacheVars
    /\ UNCHANGED sendVars

\* The client path: the start time of a record fetched for the charts
TimeClient ==
    /\ conv.pc = "given"
    /\ conv.value.t = "string"
    /\ conv' = [conv EXCEPT !.pc = "cleaned", !.client = ClientTime(conv.value)]
    /\ UNCHANGED <<table, seq, now, dbCall, reqs, resp, tz>>
    /\ UNCHANGED userVars
    /\ UNCHANGED cacheVars
    /\ UNCHANGED sendVars

\* The value has been used; the process ends
TimeDone ==
    /\ conv.pc \in {"imported", "cleaned"}
    /\ conv' = NoConv
    /\ tz' = 0
    /\ UNCHANGED <<table, seq, now, dbCall, reqs, resp>>
    /\ UNCHANGED userVars
    /\ UNCHANGED cacheVars
    /\ UNCHANGED sendVars

NextTime == TimeGiven \/ TimeImport \/ TimeClient \/ TimeDone

SpecTime == Init /\ [][NextTime]_vars

----------------------------------------------------------------------------
(* Claims on the data-access layer (SpecDb) *)

\* The stored row rec carries what the INSERT parameters p hold
HoldsParams(rec, p) ==
    /\ rec.customer = p.customer.s
    /\ rec.satellite_name = p.satellite_name.s
    /\ rec.station_name = p.station_name.s
    /\ rec.station_id = p.station_id.s
    /\ IsValidDate(p.start_time) /\ rec.start_time = p.start_time.n
    /\ rec.task_type = p.task_type.s
    /\ rec.task_result = p.task_result.s
    /\ rec.raw_data = p.raw_data

CarriesPlan(record) == Truthy(InsertParams(record).plan_id)
PlanOf(record) == InsertParams(record).plan_id.s
Stored(tbl, plan) == {rec \in tbl : rec.plan_id = plan}

DbReturned == dbCall.pc = "done" /\ ~dbCall.threw

\* C1: for a non-empty plan id p and rows r1, r2 carrying p, batchInsertRecords([r1])
\* followed by batchInsertRecords([r2]) leaves exactly one record with plan id p,
\* whose mutable fields are those derived from r2.  (The record of p found
\* before the second call is the one an earlier call stored.)
C1_SecondImportWins ==
    (/\ DbReturned
     /\ Len(dbCall.records) = 1
     /\ CarriesPlan(dbCall.records[1])
     /\ Stored(dbCall.before, PlanOf(dbCall.records[1])) # {})
    => /\ Cardinality(Stored(table, PlanOf(dbCall.records[1]))) = 1
       /\ \A rec \in Stored(table, PlanOf(dbCall.records[1])) :
             HoldsParams(rec, InsertParams(dbCall.records[1]))

\* The last row of the batch that carries plan
LastWith(records, plan) ==
    CHOOSE i \in 1..Len(records) :
        /\ CarriesPlan(records[i]) /\ PlanOf(records[i]) = plan
        /\ \A j \in (i + 1)..Len(records) :
              ~(CarriesPlan(records[j]) /\ PlanOf(records[j]) = plan)

SharedPlans(records) ==
    {PlanOf(records[i]) : i \in {i \in 1..Len(records) :
        /\ CarriesPlan(records[i])
        /\ \E j \in 1..Len(records) :
              j # i /\ CarriesPlan(records[j]) /\ PlanOf(records[j]) = PlanOf(records[i])}}

\* C3: when one batchInsertRecords call receives several rows with the same plan
\* id, the last such row wins: afterwards there is one record for that plan id
\* and its task_result and start_time are those of the last row.
C3_LastRowWins ==
    DbReturned =>
        \A plan \in SharedPlans(dbCall.records) :
            LET p == InsertParams(dbCall.records[LastWith(dbCall.records, plan)])
            IN  /\ Cardinality(Stored(table, plan)) = 1
                /\ \A rec \in Stored(table, plan) :
                      /\ rec.task_result = p.task_result.s
                      /\ IsValidDate(p.start_time) /\ rec.start_time = p.start_time.n

Insertable(record) == ~ViolatesNotNull(InsertParams(record))

\* C4: a row whose INSERT fails is skipped without aborting the transaction:
\* every other row of the batch is stored and the count returned is the number
\* of rows of the batch that are stored after COMMIT.
C4_FailedRowSkipped ==
    (DbReturned /\ dbCall.fault = NoFault) =>
        /\ \A i \in 1..Len(dbCall.records) :
              Insertable(dbCall.records[i]) =>
                  Stored(table, PlanOf(dbCall.records[i])) # {}
        /\ dbCall.ret = Cardinality({i \in 1..Len(dbCall.records) :
                                        Insertable(dbCall.records[i])})

StructuralError(fault) == fault.kind \in {"begin", "commit", "lost"}

\* C5: on a structural error (BEGIN or COMMIT fails, connection lost) the
\* transaction is rolled back, the table is as it was before the call and the
\* error reaches the caller instead of a count.
C5_StructuralErrorRollsBack ==
    (dbCall.pc = "done" /\ StructuralError(dbCall.fault)) =>
        /\ dbCall.threw
        /\ dbCall.rollback
        /\ table = dbCall.before

\* A batch with insertable rows met a structural error after rows were written
C5_Witness ==
    /\ dbCall.pc = "done"
    /\ dbCall.fault.kind = "commit"
    /\ \E i \in 1..Len(dbCall.records) :
          /\ Insertable(dbCall.records[i])
          /\ Stored(dbCall.before, PlanOf(dbCall.records[i])) = {}
    /\ dbCall.threw

----------------------------------------------------------------------------
(* Claims on the handlers (Spec: one client; SpecConc: two clients) *)

\* C2: in every reachable state, after any sequence and interleaving of file
\* imports, batch imports, PUT updates, DELETEs and clears, no two stored
\* records have the same plan_id.
C2_PlanIdUnique ==
    \A r1 \in table : \A r2 \in table : r1.plan_id = r2.plan_id => r1 = r2

\* A PUT that would have given a second record the plan id of another one was
\* refused while a DELETE was in flight
C2_Witness ==
    /\ resp.handler = "PUT" /\ resp.status = ServerError /\ resp.wrote
    /\ Cardinality(table) = 2
    /\ \E c \in Clients : reqs[c].handler = "DELETE"

ImportAnswered == resp.handler \in ImportHandlers /\ resp.auth

Rejected(rows) == {i \in 1..Len(rows) : RowError(rows[i]) # "none"}

\* C6: with strict validation, when a row of the batch has an empty plan id, an
\* empty start time or an unparsable start time, the import answers 400 and ran
\* no statement changing satellite_records (no TRUNCATE, no insert): the table
\* is as it was when the request arrived.
C6_StrictValidationRejects ==
    (ImportAnswered /\ resp.validate /\ Rejected(resp.rows) # {}) =>
        /\ resp.status = 400
        /\ ~resp.wrote
        /\ resp.imported = 0
        /\ table = resp.before

\* A strict replace-mode import of a good row and a bad one met a filled table
C6_Witness ==
    /\ ImportAnswered /\ resp.validate /\ resp.mode = "replace"
    /\ Len(resp.rows) = 2 /\ Cardinality(Rejected(resp.rows)) = 1
    /\ resp.status = 400
    /\ table # {}

\* The rows of the batch with an empty plan id; the ones with a plan id and a
\* start time that parses
EmptyPlanRows(rows) == {i \in 1..Len(rows) : RowError(rows[i]) = "plan"}
ValidRows(rows) == {i \in 1..Len(rows) : RowError(rows[i]) = "none"}

RowPlan(row) == Trim(ToStringText(Cell(row, "jihuaID", "plan_id", "Plan ID")))

\* C7: a lenient import of a batch holding one row with an empty plan id and
\* rows with valid plan ids and start times ends with every valid row stored,
\* whatever the position of the invalid row.
C7_LenientKeepsValidRows ==
    (/\ ImportAnswered /\ resp.status = Success /\ ~resp.validate
     /\ Cardinality(EmptyPlanRows(resp.rows)) = 1
     /\ ValidRows(resp.rows) # {})
    => \A i \in ValidRows(resp.rows) : Stored(table, RowPlan(resp.rows[i])) # {}

\* The record of the table made from row, if any
StoredFrom(tbl, handler, row) ==
    {rec \in tbl : rec.raw_data = JsonStringify(StandardRecord(handler, row))}

\* C8: with validation off a row whose plan id or start time is missing or
\* whose start time does not parse is not rejected: after the import it is
\* stored as a record.
C8_LenientStoresIncomplete ==
    (ImportAnswered /\ resp.status = Success /\ ~resp.validate) =>
        \A i \in Rejected(resp.rows) :
            StoredFrom(table, resp.handler, resp.rows[i]) # {}

\* C9: an authenticated clear of a table holding N > 0 records leaves it empty
\* and answers success with deletedCount = N and remainingCount = 0; on an
\* empty table it answers 400 and performs no TRUNCATE.
C9_ClearAnswers ==
    (resp.handler = "clear" /\ resp.auth) =>
        \/ /\ resp.status = 400
           /\ resp.before = {}
           /\ ~resp.wrote
           /\ table = {}
        \/ /\ resp.status = Success
           /\ resp.wrote
           /\ resp.removed > 0
           /\ resp.deletedCount = resp.removed
           /\ resp.remainingCount = 0
           /\ table = {}

\* A table of two records was cleared
C9_Witness ==
    /\ resp.handler = "clear" /\ resp.auth
    /\ resp.status = Success
    /\ resp.deletedCount = 2

\* C10: a request for which verifyAuth fails is answered before any TRUNCATE,
\* INSERT, UPDATE, DELETE or export query: it changes nothing in
\* satellite_records and does not read it for export.
C10_NoStatementWithoutAuth ==
    (resp.handler # "none" /\ ~resp.auth) =>
        /\ ~resp.wrote
        /\ ~resp.queried
        /\ table = resp.before

\* A DELETE of a stored record was refused while another request was in flight
C10_Witness ==
    /\ resp.handler = "DELETE" /\ ~resp.auth
    /\ WithId(table, resp.id.n) # {}
    /\ \E c \in Clients : reqs[c].handler # "none"

----------------------------------------------------------------------------
(* Claims on the users table (SpecUsers) *)

\* C11: rows of users are created only by the bootstrap step: after any
\* sequence of requests no user row was inserted by a request handler, and the
\* table never holds more than the one bootstrap admin.
C11_OnlyBootstrapCreatesUsers ==
    /\ \A u \in users : u.by = "bootstrap"
    /\ Cardinality(users) <= 1

----------------------------------------------------------------------------
(* Claims on getRecords and the query cache (SpecQuery) *)

\* The call of a caller has just given its result from the two statements
Answered(c) == qCalls[c].pc = "done" /\ ~qCalls[c].hit

\* The columns the filter options of getRecords are compared with
FilterColumn(rec, k) ==
    CASE k = "taskResult" -> rec.task_result
      [] k = "planId" -> rec.plan_id
      [] k = "customer" -> rec.customer
      [] k = "satelliteName" -> rec.satellite_name
      [] k = "stationName" -> rec.station_name
      [] k = "stationId" -> rec.station_id
      [] k = "taskType" -> rec.task_type

TextFilters ==
    {"taskResult", "planId", "customer", "satelliteName", "stationName", "stationId",
     "taskType"}

\* A row passes every filter that is given and not empty
Passes(rec, options) ==
    /\ \A k \in TextFilters \cap DOMAIN options :
           options[k].s # <<>> => FilterColumn(rec, k) = options[k].s
    /\ "startDate" \in DOMAIN options => rec.start_time >= options["startDate"].n
    /\ "endDate" \in DOMAIN options => rec.start_time <= options["endDate"].n

\* C12: every record a call of getRecords returns satisfies each filter of its
\* options that is present and not empty (start_time within startDate and
\* endDate, the text columns equal to their options), and every row of the
\* table queried that satisfies them is counted in the total: an absent or
\* empty filter excludes nothing
C12_FiltersOfGetRecords ==
    \A c \in Clients :
        /\ qCalls[c].pc = "done" =>
               \A i \in DOMAIN qCalls[c].result.records :
                   Passes(qCalls[c].result.records[i], qCalls[c].options)
        /\ Answered(c) =>
               qCalls[c].result.total =
                   Cardinality({rec \in qCalls[c].seen : Passes(rec, qCalls[c].options)})

\* A call filtered by task result returned one of the two rows of the table
C12_Witness ==
    /\ Answered(1)
    /\ "taskResult" \in DOMAIN qCalls[1].options
    /\ qCalls[1].options["taskResult"].s # <<>>
    /\ Len(qCalls[1].result.records) = 1
    /\ Cardinality(qCalls[1].seen) = 2

\* C13: a call of getRecords with no filter but a time range and no page size
\* (so that its one page is every page) returns as many records as getStats
\* counts in total_records for that range on the table as it is at the return
C13_AllPagesMatchStats ==
    \A c \in Clients :
        (qCalls[c].pc = "done" /\ DOMAIN qCalls[c].options \subseteq {"startDate", "endDate"})
            => Len(qCalls[c].result.records) =
                   ParseInt(getStats(table, qCalls[c].options).total_records)

\* The rows of a table that match the options, as the SELECT list gives them
Matching(tbl, options) == {Selected(rec) : rec \in {rec \in tbl : Passes(rec, options)}}

\* q lists every element of rows once, by start_time descending
SortedDesc(q, rows) ==
    /\ Len(q) = Cardinality(rows)
    /\ {q[i] : i \in DOMAIN q} = rows
    /\ \A i, j \in DOMAIN q : i < j => q[i].start_time >= q[j].start_time

\* The records are the slice [(page - 1) * limit, page * limit) of q
SliceOf(records, q, page, limit) ==
    /\ Len(records) =
           IF Len(q) <= (page - 1) * limit THEN 0
           ELSE IF Len(q) < page * limit THEN Len(q) - (page - 1) * limit
           ELSE limit
    /\ \A i \in DOMAIN records : records[i] = q[(page - 1) * limit + i]

\* The pages the callers hold, fetched from the database on the table tbl with
\* page size limit
PagesHeld(tbl, limit) ==
    {c \in Clients : /\ Answered(c)
                     /\ qCalls[c].seen = tbl
                     /\ DOMAIN qCalls[c].options = {"page", "limit"}
                     /\ qCalls[c].options["limit"].n = limit}

\* C14: on a cache miss the records of getRecords(options) are the slice
\* [(page-1)*limit, page*limit) of the matching records sorted by start_time
\* descending, total is the number of matching records and totalPages is
\* ceil(total / limit); and when the callers hold the pages 1..totalPages of one
\* table, these pages together contain every matching record
C14_PagesCoverMatches ==
    /\ \A c \in Clients :
           Answered(c) =>
               /\ \E q \in [1..Cardinality(Matching(qCalls[c].seen, qCalls[c].options))
                               -> Matching(qCalls[c].seen, qCalls[c].options)] :
                      /\ SortedDesc(q, Matching(qCalls[c].seen, qCalls[c].options))
                      /\ SliceOf(qCalls[c].result.records, q,
                                 PageOf(qCalls[c].options), LimitOf(qCalls[c].options))
               /\ qCalls[c].result.total =
                      Cardinality(Matching(qCalls[c].seen, qCalls[c].options))
               /\ qCalls[c].result.totalPages * LimitOf(qCalls[c].options)
                      >= qCalls[c].result.total
               /\ (qCalls[c].result.totalPages - 1) * LimitOf(qCalls[c].options)
                      < qCalls[c].result.total \/ qCalls[c].result.total = 0
    /\ \A c \in Clients :
           (/\ Answered(c)
            /\ DOMAIN qCalls[c].options = {"page", "limit"}
            /\ {PageOf(qCalls[d].options) :
                    d \in PagesHeld(qCalls[c].seen, LimitOf(qCalls[c].options))}
                   = 1..qCalls[c].result.totalPages)
               => UNION {{qCalls[d].result.records[i] : i \in DOMAIN qCalls[d].result.records} :
                             d \in PagesHeld(qCalls[c].seen, LimitOf(qCalls[c].options))}
                      = Matching(qCalls[c].seen, qCalls[c].options)

\* The call of d was answered before the call of c, with the same serialized
\* options, was made
EarlierCall(d, c) ==
    /\ d # c
    /\ qCalls[d].pc = "done"
    /\ qCalls[c].pc # "idle"
    /\ CacheKey(qCalls[d].options) = CacheKey(qCalls[c].options)
    /\ qCalls[d].took < qCalls[c].at

\* A call made less than the time-to-live after an earlier successful call
\* with the same serialized options sends no statement and is answered from
\* the cache, whether that earlier call queried the database or not
C15_FreshAfterAnyCall ==
    \A c, d \in Clients :
        (EarlierCall(d, c) /\ qCalls[c].at - qCalls[d].at < CacheTtl)
            => (qCalls[c].pc = "done" /\ qCalls[c].hit /\ qCalls[c].queries = 0)

\* C15: a call made less than the time-to-live after an earlier call with the
\* same serialized options stored its result sends no statement and returns
\* that stored result, when the cache was not cleared in between; an entry of
\* age at least the time-to-live is never returned, the statements run again
C15_HitWithinTtl ==
    [][\A c \in Clients :
          (qCalls[c].pc = "idle" /\ qCalls'[c].pc # "idle") =>
              IF \E e \in queryCache :
                     /\ e.key = CacheKey(qCalls'[c].options)
                     /\ dateNow - e.timestamp < CacheTtl
              THEN /\ qCalls'[c].pc = "done"
                   /\ qCalls'[c].queries = 0
                   /\ \E e \in queryCache :
                          /\ e.key = CacheKey(qCalls'[c].options)
                          /\ qCalls'[c].result = e.data
                   /\ queryCache' = queryCache
              ELSE qCalls'[c].pc = "querying"]_vars

\* A call is answered from the cache, four minutes after the result was stored,
\* with no record although one has been imported since; and another call of
\* the same options, made a minute later, has gone to the database
C15_Witness ==
    /\ qCalls[1].pc = "done" /\ qCalls[1].hit
    /\ qCalls[1].at = CacheTtl - 1
    /\ qCalls[1].result.total = 0
    /\ table # {}
    /\ qCalls[2].pc = "querying"
    /\ qCalls[2].options = qCalls[1].options
    /\ qCalls[2].at = CacheTtl

\* C16: the cache never holds more than 51 entries, and when a result is
\* stored while it holds more than 50 entries, every entry is dropped first:
\* afterwards it holds exactly the one new entry; a result stored while it
\* holds at most 50 entries drops no entry of another key
C16_CacheClearedAboveLimit ==
    /\ [](Cardinality(queryCache) <= 51)
    /\ [][queryCache' # queryCache =>
             IF Cardinality(queryCache) > 50
             THEN /\ Cardinality(queryCache') = 1
                  /\ \E c \in Clients :
                         /\ qCalls[c].pc = "querying" /\ qCalls'[c].pc = "done"
                         /\ \A e \in queryCache' :
                                /\ e.key = CacheKey(qCalls[c].options)
                                /\ e.data = qCalls'[c].result
             ELSE \A e \in queryCache : \E f \in queryCache' : f.key = e.key]_vars

\* The cache holds one entry, of the fifty-second page asked for: the fifty-one
\* entries stored before have just been dropped
C16_Witness ==
    /\ Cardinality(queryCache) = 1
    /\ \E e \in queryCache : e.key["page"].n = 52

----------------------------------------------------------------------------
(* Claims on the statistics endpoint (SpecStats) *)

\* The records of the table queried that lie in the time range asked for
InTimeRange(tbl, query) ==
    {rec \in tbl :
        /\ "startDate" \in DOMAIN query => rec.start_time >= query["startDate"].n
        /\ "endDate" \in DOMAIN query => rec.start_time <= query["endDate"].n}

Failed(rows) == {rec \in rows : rec.task_result \in FailureResults}

\* rate, in hundredths of a percent, is succeeded / total rounded to the nearest
\* hundredth of a percent
IsPercentage(rate, succeeded, total) ==
    /\ 2 * (rate * total - succeeded * 10000) <= total
    /\ 2 * (succeeded * 10000 - rate * total) <= total

\* C17: a successful answer of /api/stats carries success_rate the number 0
\* when the time range holds no record, and otherwise the share of the records
\* of the range that did not fail, as a percentage (to two decimals)
C17_SuccessRate ==
    (resp.handler = "stats" /\ resp.status = Success) =>
        IF InTimeRange(resp.before, resp.query) = {}
        THEN resp.data.success_rate = Num(0)
        ELSE /\ resp.data.success_rate.t = "string"
             /\ resp.data.success_rate.s = <<"toFixed(2)">>
             /\ IsPercentage(resp.data.success_rate.n,
                             Cardinality(InTimeRange(resp.before, resp.query)
                                             \ Failed(resp.before)),
                             Cardinality(InTimeRange(resp.before, resp.query)))

\* An answer for a time range that holds none of the records of the table
C17_Witness ==
    /\ resp.handler = "stats" /\ resp.status = Success
    /\ resp.before # {}
    /\ resp.data.total_records = 0
    /\ resp.data.success_rate = Num(0)

\* An answer over three records one of which failed: 66.67
C17_Rounded ==
    /\ resp.handler = "stats" /\ resp.status = Success
    /\ resp.data.total_records = 3
    /\ resp.data.success_rate.n = 6667

----------------------------------------------------------------------------
(* Claims on the conversions of a start time (SpecTime) *)

IsTimeString(v) ==
    /\ v.t = "string" /\ Len(v.s) \in {3, 4}
    /\ DayNumber(v.s[1]) >= 0 /\ HourOf(v.s[3]) >= 0

\* C19: a start-time string "t", "tZ" or "t+08:00", with a space or a T between
\* date and time, is parsed to a valid time whose calendar fields are those of
\* t, by parseFileTime and the import handlers as by the client
C19_StringIsWallClock ==
    IsTimeString(conv.value) =>
        /\ conv.pc = "imported" =>
               /\ IsValidDate(conv.server) /\ IsValidDate(conv.handler)
               /\ conv.server.n = DayNumber(conv.value.s[1]) * 24 + HourOf(conv.value.s[3])
               /\ conv.handler.n = DayNumber(conv.value.s[1]) * 24 + HourOf(conv.value.s[3])
        /\ conv.pc = "cleaned" =>
               /\ IsValidDate(conv.client)
               /\ conv.client.n = DayNumber(conv.value.s[1]) * 24 + HourOf(conv.value.s[3])

----------------------------------------------------------------------------
(* Claims on the upsert (SpecDb) *)

\* The INSERT of the i-th row ran and succeeded: no row up to it fails
Ran(records, i) == \A j \in 1..i : Insertable(records[j])

\* The last row of the batch whose INSERT ran and that carries plan
LastRanWith(records, plan) ==
    CHOOSE i \in 1..Len(records) :
        /\ Ran(records, i) /\ PlanOf(records[i]) = plan
        /\ \A j \in (i + 1)..Len(records) :
              ~(Ran(records, j) /\ PlanOf(records[j]) = plan)

\* old, stored before the call, has been overwritten by the row of the batch
\* and kept its id and created_at
Overwritten(old, rec, record, clock) ==
    /\ rec.plan_id = old.plan_id
    /\ rec.id = old.id
    /\ rec.created_at = old.created_at
    /\ rec.updated_at = clock
    /\ HoldsParams(rec, InsertParams(record))

\* C20: after an import, a record whose plan id a row of the batch carried
\* when its INSERT ran holds the customer, satellite_name, station_name,
\* station_id, start_time, task_type, task_result and raw_data of that row and
\* the updated_at of the import, and keeps its created_at and id; every other
\* record is unchanged
C20_UpsertFrame ==
    (DbReturned /\ dbCall.fault = NoFault) =>
        \A old \in dbCall.before :
            IF \E i \in 1..Len(dbCall.records) :
                   Ran(dbCall.records, i) /\ PlanOf(dbCall.records[i]) = old.plan_id
            THEN \E rec \in table :
                     Overwritten(old, rec,
                                 dbCall.records[LastRanWith(dbCall.records, old.plan_id)],
                                 dbCall.at)
            ELSE old \in table

----------------------------------------------------------------------------
(* Claims about one record by id, checked under SpecConc *)

\* The answer on the wire comes from GET, PUT or DELETE /api/records/[id]
\* and passed the checks of the id
ByIdAnswer ==
    /\ resp.handler \in Methods
    /\ resp.status \notin {Unauthorized, 400}

\* C21: GET, PUT and DELETE for an id that matches no stored record answer
\* 404 and change nothing, and a success answer to PUT or DELETE is given only
\* when the request updated or deleted a record with that id, also when
\* another request deleted the record between the SELECT and the write
C21_SuccessMeansWritten ==
    ByIdAnswer =>
        /\ (~resp.wrote /\ WithId(resp.before, resp.id.n) = {}) =>
               (resp.status = 404 /\ table = resp.before)
        /\ (resp.handler = "DELETE" /\ resp.status = Success) =>
               (resp.removed = 1 /\ WithId(resp.before, resp.id.n) # {})
        /\ (resp.handler = "PUT" /\ resp.status = Success) =>
               (resp.data # {} /\ resp.data \subseteq table)

----------------------------------------------------------------------------
(* Claims about a failing statement of getRecords, checked under SpecFail *)

\* The call of c ends with the throw of getRecords in this step
Throws(c) == qCalls[c].pc = "querying" /\ qCalls'[c].pc = "threw"

\* The caller c calls again after the throw in this step
CallsAgain(c) == qCalls[c].pc = "threw" /\ qCalls'[c].pc \in {"querying", "done"}

----------------------------------------------------------------------------
(* Claims about an import sent in several requests, checked under SpecBatches *)

\* Every batch of the import has been answered with success
UploadSucceeded == upload.pc = "done" /\ upload.mode = "replace"

\* C23: after all the requests of a replace-mode import sent as several
\* /api/import-batch requests have succeeded, the table holds a record for
\* every row of every batch, not only for those of the last batch
C23_ReplaceKeepsEveryBatch ==
    UploadSucceeded =>
        \A i \in 1..Len(upload.batches) :
            \A j \in 1..Len(upload.batches[i]) :
                \E rec \in table : rec.plan_id = PlanOf(upload.batches[i][j])

----------------------------------------------------------------------------
(* Claims about initDatabase, checked under SpecUsers *)

\* The positions of a request inside the body of initDatabase
InitSteps == {"tableCheck", "create", "count", "insertDefault"}

\* The requests that are executing the body of initDatabase
Initializing == {c \in Clients : reqs[c].pc \in InitSteps}

\* C24: the body of initDatabase runs at most once per process: no two
\* requests are inside it at the same time, and once isInitialized is set no
\* request enters it
C24_InitBodyOnce ==
    /\ [](Cardinality(Initializing) <= 1)
    /\ [][\A c \in Clients :
             (boot.isInitialized /\ reqs[c].handler = "none"
              /\ reqs'[c].handler # "none") => reqs'[c].pc \notin InitSteps]_vars


\* C25: whenever initDatabase has set isInitialized the users table holds a
\* row, whether the tables had to be created or were found, and concurrent
\* initializations never leave two admin rows
C25_InitializedHasAdmin ==
    /\ boot.isInitialized => users # {}
    /\ Cardinality(Named("admin")) <= 1

----------------------------------------------------------------------------
(* Claims about clear among concurrent imports, checked under SpecConc *)

\* C26: when a clear runs concurrently with imports, a success answer reports
\* as deletedCount the number of records its TRUNCATE removed and is sent
\* while the table is empty, and an error answer is sent only by a clear that
\* removed no record
C26_ClearTellsTruth ==
    resp.handler = "clear" =>
        /\ resp.status = Success =>
               /\ resp.deletedCount = resp.removed
               /\ resp.remainingCount = 0 /\ table = {}
        /\ resp.status # Success => (~resp.wrote /\ resp.removed = 0)

----------------------------------------------------------------------------
(* Claims about a failing import request, checked under SpecAtomic *)

\* The import request has been answered with an error
ImportFailed ==
    /\ upload.pc = "waiting"
    /\ resp.handler \in ImportHandlers
    /\ resp.status # Success

\* C27: when an import request ends with an error answer the table is as it
\* was before the request, in replace mode after the TRUNCATE as in chunked
\* mode after earlier chunks were committed
C27_ImportAllOrNothing == ImportFailed => table = upload.before

----------------------------------------------------------------------------
(* Claims about the counts of getStats, checked under SpecResults *)

\* The five task results that count as failures
FiveFailures ==
    {<<"yinshebeiguzhangshibai">>, <<"yincaozuoshiwushibai">>, <<"weigenzong">>,
     <<"yinweixingfangyuanyinshibai">>, <<"renwuchenggongshujuchulishiwu">>}

\* C28: for every table and every time range the answer of /api/stats built
\* from getStats has total_plans = total_records and 0 <= total_failures <=
\* total_records, total_failures being the number of records of the range
\* whose task_result is one of the five failure results, and a success rate
\* between 0 and 100
C28_StatsCounts ==
    (resp.handler = "stats" /\ resp.status = Success) =>
        /\ resp.data.total_plans = resp.data.total_records
        /\ resp.data.total_records = Cardinality(InTimeRange(resp.before, resp.query))
        /\ resp.data.total_failures =
               Cardinality({rec \in InTimeRange(resp.before, resp.query) :
                               rec.task_result \in FiveFailures})
        /\ 0 <= resp.data.total_failures
        /\ resp.data.total_failures <= resp.data.total_records
        /\ 0 <= resp.data.success_rate.n /\ resp.data.success_rate.n <= 10000

\* An answer over two records of the range: one untracked, which is counted
\* as a failure, and one with result shibai, which is not
C28_Witness ==
    /\ resp.handler = "stats" /\ resp.status = Success
    /\ resp.data.total_records = 2
    /\ resp.data.total_failures = 1
    /\ \E rec \in InTimeRange(resp.before, resp.query) : rec.task_result = <<"shibai">>
    /\ \E rec \in InTimeRange(resp.before, resp.query) : rec.task_result = <<"weigenzong">>

----------------------------------------------------------------------------
(* Claims about the id of a record, checked under SpecConc *)

\* C29: in every reachable state, after any imports (with upserts), deletes
\* and clears that restart the id sequence, no two stored records have the
\* same id, and a GET, PUT or DELETE by id touches at most one record
C29_IdUnique ==
    /\ \A r1 \in table : \A r2 \in table : r1.id = r2.id => r1 = r2
    /\ \A rec \in table : rec.id <= seq
    /\ resp.handler \in Methods =>
           (Cardinality(resp.data) <= 1 /\ resp.removed <= 1)

\* A DELETE by id removed one record of a table that holds another one, after
\* the sequence handed out more ids than records were ever stored at once
C29_Witness ==
    /\ resp.handler = "DELETE" /\ resp.status = Success /\ resp.removed = 1
    /\ table # {}
    /\ seq > Cardinality(resp.before)

----------------------------------------------------------------------------
(* Claims about the plan id of an imported row, checked under SpecPadded *)

\* The plan identifier a row carries, under whichever title
PlanCell(row) == ToStringText(Cell(row, "jihuaID", "plan_id", "Plan ID"))

\* C30: the plan_id stored for an imported row is its plan identifier with
\* the whitespace trimmed, whichever title carried it: no record is stored
\* under a plan_id with spaces around it or made of spaces only, and rows whose
\* identifiers differ by such spaces only end in one record
C30_PlanIdTrimmed ==
    /\ \A rec \in table : rec.plan_id = Trim(rec.plan_id)
    /\ \A r1 \in table : \A r2 \in table :
           Trim(r1.plan_id) = Trim(r2.plan_id) => r1 = r2

====
